---- MODULE Spec2Model ----
(***************************************************************************)
(* StudyMate ingestion-to-retrieval pipeline.                              *)
(*                                                                         *)
(*   SpecIngest : run_ingest_stage -- the model server, the page_job       *)
(*                callers of the documents' pages, the document tasks of   *)
(*                the pool, and Ingestor.run's result.                     *)
(*   SpecQueue  : the same run over image-paginated files only, one user:  *)
(*                the request/response queue protocol.                     *)
(*   SpecIndex  : Ingestor.run / Indexer.run / Searcher for two users that *)
(*                share the vector-store location.                         *)
(*   SpecBlocks : Ingestor.process_blocks on the block lists of a          *)
(*                document: the header/footer sanitizer.                   *)
(*   SpecChunks : process_blocks and build_chunks on the block lists of    *)
(*                two documents.                                           *)
(*   SpecServer : model_server with clients that put page jobs and None    *)
(*                on its inbound queue in any order.                       *)
(*   SpecPool   : the run over a root with more files than pool            *)
(*                processes, or a PDF with more pages than workers.        *)
(*   SpecLive   : the run with a server that answers in time, under weak   *)
(*                fairness of the server and of every page_job caller.     *)
(*   SpecParas  : process_blocks and build_chunks on the paragraphs of a   *)
(*                text file.                                               *)
(*   SpecRerank : Reranker.rerank on one candidate list.                   *)
(*                                                                         *)
(* A text is a sequence of one-character strings.                          *)
(***************************************************************************)
EXTENDS Integers, Sequences, FiniteSets, TLC

(***************************************************************************)
(* Text helpers: re.sub(r"\s+", " ", s), str.strip, str.lower, str.split.  *)
(***************************************************************************)
IsSpace(c) == c \in {" ", "\n"}

LowerChar(c) ==
    CASE c = "A" -> "a"
      [] c = "B" -> "b"
      [] c = "H" -> "h"
      [] OTHER   -> c

Lower(s) == [i \in 1..Len(s) |-> LowerChar(s[i])]

RECURSIVE LStrip(_)
LStrip(s) == IF s # <<>> /\ IsSpace(Head(s)) THEN LStrip(Tail(s)) ELSE s

RECURSIVE RStrip(_)
RStrip(s) ==
    IF s # <<>> /\ IsSpace(s[Len(s)]) THEN RStrip(SubSeq(s, 1, Len(s) - 1)) ELSE s

Strip(s) == RStrip(LStrip(s))

\* re.sub(r"\s+", " ", s): every maximal run of whitespace becomes one blank.
CollapseWs(s) ==
    LET kept == SelectSeq([i \in 1..Len(s) |-> i],
                          LAMBDA i : ~IsSpace(s[i]) \/ i = 1 \/ ~IsSpace(s[i - 1]))
    IN  [k \in 1..Len(kept) |-> IF IsSpace(s[kept[k]]) THEN " " ELSE s[kept[k]]]

\* len(s.split()): the number of maximal runs of non-whitespace characters.
WordCount(s) ==
    Cardinality({i \in 1..Len(s) : ~IsSpace(s[i]) /\ (i = Len(s) \/ IsSpace(s[i + 1]))})

\* BlockProcessor._norm_text
norm_text(s) == Lower(Strip(CollapseWs(s)))

\* (b.get("type") or "").lower()
LowerType(t) ==
    CASE t = "Page-Header" -> "page-header"
      [] t = "Page-Footer" -> "page-footer"
      [] t = "Text"        -> "text"
      [] OTHER             -> t

SetMax(S) == CHOOSE x \in S : \A y \in S : y <= x
SetMin(S) == CHOOSE x \in S : \A y \in S : x <= y

(***************************************************************************)
(* BlockProcessor.remove_page_headers_footers                              *)
(***************************************************************************)
min_repeat == 3
y_tolerance == 20
max_header_words == 12
max_header_chars == 80

\* The blocks the statistics loop counts: non-empty normalized text within
\* the character and word ceilings.
Counted(b) ==
    LET txt == norm_text(b.text)
    IN  /\ txt # <<>>
        /\ ~(Len(txt) > max_header_chars \/ WordCount(txt) > max_header_words)

\* stats[txt]["pages"] and stats[txt]["ys"] after the first loop.
StatPages(blocks, txt) ==
    {blocks[i].page : i \in {j \in 1..Len(blocks) :
        Counted(blocks[j]) /\ norm_text(blocks[j].text) = txt}}

StatYs(blocks, txt) ==
    {blocks[i].y : i \in {j \in 1..Len(blocks) :
        Counted(blocks[j]) /\ norm_text(blocks[j].text) = txt}}

\* texts_to_drop with the spread compared by < in place of <=
texts_to_drop_strict(blocks) ==
    {txt \in {norm_text(blocks[i].text) : i \in {j \in 1..Len(blocks) : Counted(blocks[j])}} :
        /\ ~(Cardinality(StatPages(blocks, txt)) < min_repeat)
        /\ SetMax(StatYs(blocks, txt)) - SetMin(StatYs(blocks, txt)) < y_tolerance}

texts_to_drop(blocks) ==
    {txt \in {norm_text(blocks[i].text) : i \in {j \in 1..Len(blocks) : Counted(blocks[j])}} :
        /\ ~(Cardinality(StatPages(blocks, txt)) < min_repeat)
        /\ SetMax(StatYs(blocks, txt)) - SetMin(StatYs(blocks, txt)) <= y_tolerance}

\* the loop with the first typed header of every page kept
RECURSIVE CleanLoopFirstKept(_, _, _, _, _)
CleanLoopFirstKept(blocks, i, current_page, seen_header, drop) ==
    IF i > Len(blocks) THEN <<>>
    ELSE LET b     == blocks[i]
             seen0 == IF b.page # current_page THEN FALSE ELSE seen_header
             btype == LowerType(b.type)
         IN  IF btype = "page-header"
             THEN (IF seen0 THEN <<>> ELSE <<b>>)
                  \o CleanLoopFirstKept(blocks, i + 1, b.page, TRUE, drop)
             ELSE IF norm_text(b.text) \in drop
                  THEN CleanLoopFirstKept(blocks, i + 1, b.page, seen0, drop)
                  ELSE <<b>> \o CleanLoopFirstKept(blocks, i + 1, b.page, seen0, drop)

\* The second loop: current_page / seen_header_this_page are carried along;
\* a page-footer is logged and falls through to the tests that follow it.
RECURSIVE CleanLoop(_, _, _, _, _)
CleanLoop(blocks, i, current_page, seen_header, drop) ==
    IF i > Len(blocks) THEN <<>>
    ELSE LET b     == blocks[i]
             seen0 == IF b.page # current_page THEN FALSE ELSE seen_header
             btype == LowerType(b.type)
         IN  IF btype = "page-header"
             THEN CleanLoop(blocks, i + 1, b.page, TRUE, drop)
             ELSE IF norm_text(b.text) \in drop
                  THEN CleanLoop(blocks, i + 1, b.page, seen0, drop)
                  ELSE <<b>> \o CleanLoop(blocks, i + 1, b.page, seen0, drop)

remove_page_headers_footers(blocks) ==
    CleanLoop(blocks, 1, -1, FALSE, texts_to_drop(blocks))

(***************************************************************************)
(* ChunkBuilder                                                            *)
(***************************************************************************)
windows == 10
min_words == 20
chunk_size == 500
chunk_overlap == 50
separators == << <<"\n", "\n">>, <<"\n">>, <<".">>, <<" ">>, <<>> >>

\* seen[-windows:]
LastN(seq, n) == IF Len(seq) <= n THEN seq ELSE SubSeq(seq, Len(seq) - n + 1, Len(seq))

SeqRange(seq) == {seq[i] : i \in 1..Len(seq)}

\* the loop with txt looked up in all of seen
RECURSIVE DedupLoopAll(_, _, _)
DedupLoopAll(blocks, i, seen) ==
    IF i > Len(blocks) THEN <<>>
    ELSE LET txt == Lower(Strip(CollapseWs(blocks[i].text)))
         IN  IF txt \in SeqRange(seen)
             THEN DedupLoopAll(blocks, i + 1, seen)
             ELSE <<blocks[i]>> \o DedupLoopAll(blocks, i + 1, Append(seen, txt))

RECURSIVE DedupLoop(_, _, _)
DedupLoop(blocks, i, seen) ==
    IF i > Len(blocks) THEN <<>>
    ELSE LET txt == Lower(Strip(CollapseWs(blocks[i].text)))
         IN  IF txt \in SeqRange(LastN(seen, windows))
             THEN DedupLoop(blocks, i + 1, seen)
             ELSE <<blocks[i]>> \o DedupLoop(blocks, i + 1, Append(seen, txt))

remove_near_duplicates(blocks) == DedupLoop(blocks, 1, <<>>)

\* buffer is None
NoBuffer == [none |-> TRUE]

AppendText(buffer, txt) == [buffer EXCEPT !.text = @ \o <<" ">> \o txt]

RECURSIVE MergeLoop(_, _, _)
MergeLoop(blocks, i, buffer) ==
    IF i > Len(blocks)
    THEN IF buffer # NoBuffer THEN <<buffer>> ELSE <<>>
    ELSE LET b   == blocks[i]
             txt == Strip(b.text)
         IN  IF WordCount(txt) < min_words
             THEN IF buffer = NoBuffer
                  THEN MergeLoop(blocks, i + 1, b)
                  ELSE IF buffer.page = b.page
                       THEN MergeLoop(blocks, i + 1, AppendText(buffer, txt))
                       ELSE <<buffer>> \o MergeLoop(blocks, i + 1, b)
             ELSE IF buffer # NoBuffer
                  THEN IF buffer.page = b.page
                       THEN <<AppendText(buffer, txt)>> \o MergeLoop(blocks, i + 1, NoBuffer)
                       ELSE <<buffer, b>> \o MergeLoop(blocks, i + 1, NoBuffer)
                  ELSE <<b>> \o MergeLoop(blocks, i + 1, NoBuffer)

merge_small_blocks(blocks) == MergeLoop(blocks, 1, NoBuffer)

(***************************************************************************)
(* RecursiveCharacterTextSplitter(chunk_size, chunk_overlap, separators),  *)
(* with the library's defaults keep_separator = True (a piece starts with  *)
(* the separator that precedes it) and strip_whitespace = True.            *)
(***************************************************************************)
MatchAt(text, sep, i) ==
    /\ i + Len(sep) - 1 <= Len(text)
    /\ SubSeq(text, i, i + Len(sep) - 1) = sep

\* The first position >= from where sep occurs in text, or 0.
FindFrom(text, sep, from) ==
    LET hits == {i \in from..Len(text) : MatchAt(text, sep, i)}
    IN  IF hits = {} THEN 0 ELSE SetMin(hits)

NonEmpty(pieces) == SelectSeq(pieces, LAMBDA p : p # <<>>)

\* text starts with sep: cut it before every later occurrence of sep (a
\* one-character sep occurs wherever that character is).
RECURSIVE SplitRest(_, _)
SplitRest(text, sep) ==
    IF Len(sep) = 1
    THEN LET at == SelectSeq([i \in 1..Len(text) |-> i], LAMBDA i : text[i] = sep[1])
         IN  [k \in 1..Len(at) |->
                 SubSeq(text, at[k], IF k = Len(at) THEN Len(text) ELSE at[k + 1] - 1)]
    ELSE LET j == FindFrom(text, sep, Len(sep) + 1)
         IN  IF j = 0 THEN <<text>>
             ELSE <<SubSeq(text, 1, j - 1)>> \o SplitRest(SubSeq(text, j, Len(text)), sep)

\* _split_text_with_regex(text, separator, keep_separator = True)
SplitKeep(text, sep) ==
    IF sep = <<>> THEN [i \in 1..Len(text) |-> <<text[i]>>]
    ELSE LET i == FindFrom(text, sep, 1)
         IN  IF i = 0 THEN NonEmpty(<<text>>)
             ELSE NonEmpty(<<SubSeq(text, 1, i - 1)>>
                           \o SplitRest(SubSeq(text, i, Len(text)), sep))

\* "".join(pieces) and the sum of the pieces' lengths, by halves
RECURSIVE Concat(_)
Concat(pieces) ==
    IF pieces = <<>> THEN <<>>
    ELSE IF Len(pieces) = 1 THEN pieces[1]
    ELSE LET h == Len(pieces) \div 2
         IN  Concat(SubSeq(pieces, 1, h)) \o Concat(SubSeq(pieces, h + 1, Len(pieces)))

RECURSIVE TotalLen(_)
TotalLen(pieces) ==
    IF pieces = <<>> THEN 0
    ELSE IF Len(pieces) = 1 THEN Len(pieces[1])
    ELSE LET h == Len(pieces) \div 2
         IN  TotalLen(SubSeq(pieces, 1, h)) + TotalLen(SubSeq(pieces, h + 1, Len(pieces)))

\* _join_docs with separator "": the stripped concatenation, nothing if empty.
JoinDocs(cur) == IF Strip(Concat(cur)) = <<>> THEN <<>> ELSE <<Strip(Concat(cur))>>

\* the while loop of _merge_splits that pops pieces off the front of current_doc
\* what is left of cur: the longest tail of it at which the loop stops
PopFront(cur, len, size, overlap) ==
    LET left(m) == SubSeq(cur, m + 1, Len(cur))
        stops   == {m \in 0..Len(cur) :
                      ~(\/ TotalLen(left(m)) > overlap
                        \/ (TotalLen(left(m)) + len > size /\ TotalLen(left(m)) > 0))}
    IN  left(SetMin(stops))

\* _merge_splits from piece i on, cur being current_doc: the pieces up to the
\* first one that does not fit are appended to cur, which is then emitted.
RECURSIVE MergeSplits(_, _, _, _, _)
MergeSplits(splits, i, cur, size, overlap) ==
    LET doc(j) == cur \o SubSeq(splits, i, j - 1)
        full   == {j \in i..Len(splits) :
                     TotalLen(doc(j)) + Len(splits[j]) > size /\ Len(doc(j)) > 0}
    IN  IF full = {} THEN JoinDocs(doc(Len(splits) + 1))
        ELSE LET j == SetMin(full)
             IN  JoinDocs(doc(j))
                 \o MergeSplits(splits, j + 1,
                                Append(PopFront(doc(j), Len(splits[j]), size, overlap),
                                       splits[j]),
                                size, overlap)

\* The first separator of the list that occurs in text ("" always does).
SepIndex(text, seps) ==
    SetMin({k \in 1..Len(seps) :
        seps[k] = <<>> \/ k = Len(seps) \/ FindFrom(text, seps[k], 1) # 0})

RECURSIVE SplitPieces(_, _, _, _, _, _)
RECURSIVE SplitText(_, _, _, _)
SplitText(text, seps, size, overlap) ==
    LET k    == SepIndex(text, seps)
        rest == IF seps[k] = <<>> THEN <<>> ELSE SubSeq(seps, k + 1, Len(seps))
    IN  SplitPieces(SplitKeep(text, seps[k]), 1, <<>>, rest, size, overlap)

\* the loop over splits with _good_splits, from piece i on with good given:
\* the pieces up to the first one of size or more are the good ones
SplitPieces(splits, i, good, rest, size, overlap) ==
    LET big == {j \in i..Len(splits) : ~(Len(splits[j]) < size)}
    IN  IF big = {}
        THEN MergeSplits(good \o SubSeq(splits, i, Len(splits)), 1, <<>>, size, overlap)
        ELSE LET j == SetMin(big)
                 s == splits[j]
             IN  MergeSplits(good \o SubSeq(splits, i, j - 1), 1, <<>>, size, overlap)
                 \o (IF rest = <<>> THEN <<s>> ELSE SplitText(s, rest, size, overlap))
                 \o SplitPieces(splits, j + 1, <<>>, rest, size, overlap)

\* ChunkBuilder.split_text: the splitter is built with 500 / 50, whatever
\* chunk_size the constructor was given (cfg_chunk_size is not read).
split_text(text) == SplitText(text, separators, chunk_size, chunk_overlap)

(***************************************************************************)
(* The documents of the users' document roots.  A .pdf page is the list of *)
(* boxes the layout model detects on its image, in detection order, each   *)
(* with the text OCR reads in it; a .txt is its content; a .docx is its    *)
(* paragraphs with their style.                                            *)
(***************************************************************************)
NumPagesA == 2

Users == {"A", "B"}

POOL_PROCESSES == 9     \* Pool(processes=9)
MAX_WORKERS == 2        \* ThreadPoolExecutor(max_workers=2)

\* the files of the small document roots
BaseDocs == {"a.pdf", "b.pdf", "c.txt", "d.xyz", "e.docx"}

\* a root of more text files than the pool has processes
PoolTxt == {"t0.txt", "t1.txt", "t2.txt", "t3.txt", "t4.txt",
            "t5.txt", "t6.txt", "t7.txt", "t8.txt", "t9.txt"}

DocUniverse == <<"a.pdf", "b.pdf", "c.txt", "d.xyz", "e.docx",
                 "t0.txt", "t1.txt", "t2.txt", "t3.txt", "t4.txt",
                 "t5.txt", "t6.txt", "t7.txt", "t8.txt", "t9.txt", "f.pdf">>

\* path.suffix.lower()
Suffix(d) ==
    CASE d = "a.pdf"  -> ".pdf"
      [] d = "b.pdf"  -> ".pdf"
      [] d = "f.pdf"  -> ".pdf"
      [] d \in PoolTxt -> ".txt"
      [] d = "c.txt"  -> ".txt"
      [] d = "e.docx" -> ".docx"
      [] OTHER        -> ".xyz"

\* len(doc): the pages fitz opens; f.pdf has more pages than the executor
\* has workers
PageCount(d) ==
    IF d = "a.pdf" THEN NumPagesA ELSE IF d = "f.pdf" THEN MAX_WORKERS + 1 ELSE 1

\* results[0].boxes for the image of page p of d, with the OCR text of each box
PageBoxes(d, p) ==
    IF d = "a.pdf"
    THEN IF p = 0
         THEN << [cls |-> "Text", y1 |-> 40, ocr |-> <<"a", " ", "b", "\n">>],
                 [cls |-> "Page-Header", y1 |-> 5, ocr |-> <<"H">>] >>
         ELSE << [cls |-> "Text", y1 |-> 30 + p, ocr |-> <<"b">>],
                 [cls |-> "Picture", y1 |-> 20, ocr |-> <<"\n">>],
                 [cls |-> "Text", y1 |-> 10, ocr |-> <<"a">>] >>
    ELSE << [cls |-> "Title", y1 |-> 10, ocr |-> <<"B">>] >>

TxtContent(d) == <<"a", " ", "A", "\n", "\n", " ", "\n", "\n", "c", "\n">>

DocxParagraphs(d) ==
    << [text |-> <<"H", " ">>, heading |-> TRUE],
       [text |-> <<" ">>, heading |-> FALSE],
       [text |-> <<"b", " ", "c">>, heading |-> FALSE] >>

(***************************************************************************)
(* model_server's answer and page_job's block construction                 *)
(***************************************************************************)
\* model.predict(source=img): the detections of the submitted image
Predict(img) == [src |-> img, boxes |-> PageBoxes(img[1], img[2])]

\* pytesseract.image_to_string(img.crop(box)).strip(): the crop of the
\* caller's own image at a box detected on it reads that box's text
OcrText(img, results, k) ==
    IF results.src = img THEN Strip(results.boxes[k].ocr) ELSE <<"?">>

\* page_job, after the wait loop: one block per box with non-empty text
RECURSIVE PageBlocksFrom(_, _, _)
PageBlocksFrom(img, results, k) ==
    IF k > Len(results.boxes) THEN <<>>
    ELSE LET text == OcrText(img, results, k)
         IN  (IF text # <<>>
              THEN << [type |-> LowerType(results.boxes[k].cls), text |-> text,
                       page |-> img[2], y |-> results.boxes[k].y1] >>
              ELSE <<>>)
             \o PageBlocksFrom(img, results, k + 1)

page_job_blocks(img, results) == PageBlocksFrom(img, results, 1)

\* sorted(blocks, key=lambda b: (b["page"], b["y"])): a stable sort
KeyLeq(a, b) == a.page < b.page \/ (a.page = b.page /\ a.y <= b.y)

RECURSIVE InsertSorted(_, _)
InsertSorted(sorted, b) ==
    IF sorted = <<>> THEN <<b>>
    ELSE IF KeyLeq(sorted[Len(sorted)], b) THEN Append(sorted, b)
    ELSE Append(InsertSorted(SubSeq(sorted, 1, Len(sorted) - 1), b), sorted[Len(sorted)])

\* the blocks left in the order of the flattened page lists
SortBlocksNone(blocks) == blocks

RECURSIVE SortBlocks(_)
SortBlocks(blocks) ==
    IF blocks = <<>> THEN <<>>
    ELSE InsertSorted(SortBlocks(SubSeq(blocks, 1, Len(blocks) - 1)), blocks[Len(blocks)])

\* LayoutExtractor._extract_docx
RECURSIVE DocxBlocks(_, _)
DocxBlocks(paras, i) ==
    IF i > Len(paras) THEN <<>>
    ELSE (IF Strip(paras[i].text) = <<>> THEN <<>>
          ELSE << [type |-> IF paras[i].heading THEN "title" ELSE "text",
                   text |-> Strip(paras[i].text), page |-> 0, y |-> 0] >>)
         \o DocxBlocks(paras, i + 1)

extract_docx(d) == DocxBlocks(DocxParagraphs(d), 1)

\* content.split("\n\n"): the pieces between the occurrences of "\n\n"
RECURSIVE SplitOn(_, _)
SplitOn(text, sep) ==
    LET i == FindFrom(text, sep, 1)
    IN  IF i = 0 THEN <<text>>
        ELSE <<SubSeq(text, 1, i - 1)>> \o SplitOn(SubSeq(text, i + Len(sep), Len(text)), sep)

\* LayoutExtractor._extract_txt
StripAll(pieces) == [i \in 1..Len(pieces) |-> Strip(pieces[i])]

extract_txt(d) ==
    LET paras == NonEmpty(StripAll(SplitOn(TxtContent(d), <<"\n", "\n">>)))
    IN  [i \in 1..Len(paras) |->
            [type |-> "text", text |-> paras[i], page |-> 0, y |-> i - 1]]

\* process_document_task: blk["filename"] = doc.name; blk["user_id"] = user_id
Tag(blocks, d, uid) ==
    [i \in 1..Len(blocks) |->
        [type |-> blocks[i].type, text |-> blocks[i].text, page |-> blocks[i].page,
         y |-> blocks[i].y, filename |-> d, user_id |-> uid]]

(***************************************************************************)
(* Ingestor.build_chunks                                                   *)
(***************************************************************************)
\* the chunks of block b, numbered from cid
ChunksOf(b, cid, uid) ==
    LET parts == split_text(b.text)
    IN  [k \in 1..Len(parts) |->
            [filename |-> b.filename, chunk_id |-> cid + k - 1, text |-> parts[k],
             type |-> b.type, page |-> b.page, user_id |-> uid]]

\* the loop with cid set back to 0 at every block
RECURSIVE ChunkLoopPerBlock(_, _, _, _)
ChunkLoopPerBlock(blocks, i, cid, uid) ==
    IF i > Len(blocks) THEN <<>>
    ELSE ChunksOf(blocks[i], 0, uid) \o ChunkLoopPerBlock(blocks, i + 1, 0, uid)

RECURSIVE ChunkLoop(_, _, _, _)
ChunkLoop(blocks, i, cid, uid) ==
    IF i > Len(blocks) THEN <<>>
    ELSE LET cs == ChunksOf(blocks[i], cid, uid)
         IN  cs \o ChunkLoop(blocks, i + 1, cid + Len(cs), uid)

build_chunks(blocks, uid) ==
    ChunkLoop(merge_small_blocks(remove_near_duplicates(blocks)), 1, 0, uid)

(***************************************************************************)
(* State                                                                   *)
(***************************************************************************)
VARIABLES
    \* run_ingest_stage
    main_pc,        \* where the main process is
    user_id,        \* the user of the ingestion run
    docs,           \* Ingestor.load_documents(): the files of the user's root
    server,         \* the model_server process
    srv_job,        \* the job the server loop holds between get and put
    server_req_q,   \* inbound queue
    server_resp_q,  \* outbound queue, shared by all page_job callers
    answered,       \* job_ids the server has put a response for
    doc_state,      \* process_document_task of each document
    doc_blocks,     \* what the task returned
    next_result,    \* index of the next result executor.map yields
    page_state,     \* page_job of each page
    held,           \* the (jid, results) a page_job dequeued
    page_result,    \* the blocks a page_job returned
    waited,         \* ticks the current resp_q.get(timeout=30) has blocked
    elapsed,        \* ticks since the page_job put its request (while in its loop)
    \* files and stores
    chunks_file,    \* chunks_<user_id>.json
    collection,     \* the Chroma collection 'documents'
    hnsw_file,      \* hnsw_index_<user_id>.bin
    mapping_file,   \* mapping_<user_id>.json
    \* Indexer / Searcher
    indexer_pc,     \* where Indexer.run of each user is
    indexer_chunks, \* the chunks it loaded
    builds,         \* number of Indexer.run calls so far, per user
    last_run,       \* the chunk list of the last completed Indexer.run, per user
    searcher,       \* the Searcher session
    \* Ingestor.process_blocks / build_chunks on one block list
    proc_pc,        \* where the processing of the list is
    proc_blocks,    \* the blocks collected from the document tasks
    proc_cleaned,   \* what remove_page_headers_footers returned
    proc_chunks,    \* what build_chunks returned
    cfg_chunk_size, \* config["chunking"]["chunk_size"], handed to ChunkBuilder
    \* Reranker.rerank
    rerank_pc,      \* where the rerank call is
    cand_docs,      \* docs: the candidates
    cand_top_k,     \* top_k
    ce_scores,      \* what the cross-encoder predicts for (query, text), per text
    reranked,       \* what rerank returned
    predict_calls   \* calls of self.reranker.predict so far

ingest_vars == <<main_pc, user_id, docs, server, srv_job, server_req_q, server_resp_q,
                 answered, doc_state, doc_blocks, next_result, page_state, held,
                 page_result, waited, elapsed>>

index_vars == <<collection, hnsw_file, mapping_file, indexer_pc, indexer_chunks,
                builds, last_run, searcher>>

proc_vars == <<proc_pc, proc_blocks, proc_cleaned, proc_chunks, cfg_chunk_size>>

rerank_vars == <<rerank_pc, cand_docs, cand_top_k, ce_scores, reranked, predict_calls>>

vars == <<ingest_vars, chunks_file, index_vars, proc_vars, rerank_vars>>

(***************************************************************************)
(* Bounds and program constants                                            *)
(***************************************************************************)
MaxDocs == 2            \* files in the document root of the run
TicksPerTimeout == 1    \* clock ticks that make up the 30 s of one get
GET_TIMEOUT == 30       \* server_resp_q.get(timeout=30), seconds

Seconds(ticks) == (ticks * GET_TIMEOUT) \div TicksPerTimeout
ElapsedCap == TicksPerTimeout + 1

NoFile == [exists |-> FALSE]
File(data) == [exists |-> TRUE, data |-> data]
NoJob == [none |-> TRUE]
Sentinel == [sentinel |-> TRUE]     \* None on a queue
NoRun == [done |-> FALSE]
Run(chunks) == [done |-> TRUE, chunks |-> chunks]
NoSearcher == [pc |-> "none"]

DocSet == SeqRange(DocUniverse)
Pdfs == {d \in DocSet : Suffix(d) = ".pdf"}
PagesOf(d) == {<<d, p>> : p \in 0..(PageCount(d) - 1)}
Pages == UNION {PagesOf(d) : d \in Pdfs}

\* the files in the order load_documents lists them
DocOrder(d) == CHOOSE i \in 1..Len(DocUniverse) : DocUniverse[i] = d

RECURSIVE DocList(_, _)
DocList(ds, i) ==
    IF i > Len(DocUniverse) THEN <<>>
    ELSE (IF DocUniverse[i] \in ds THEN <<DocUniverse[i]>> ELSE <<>>) \o DocList(ds, i + 1)

\* no rerank call
RerankInit ==
    /\ rerank_pc = "none"
    /\ cand_docs = <<>>
    /\ cand_top_k = 0
    /\ ce_scores = <<>>
    /\ reranked = <<>>
    /\ predict_calls = 0

StoresInit ==
    /\ collection = <<>>
    /\ hnsw_file = [u \in Users |-> NoFile]
    /\ mapping_file = [u \in Users |-> NoFile]
    /\ indexer_pc = [u \in Users |-> "idle"]
    /\ indexer_chunks = [u \in Users |-> <<>>]
    /\ builds = [u \in Users |-> 0]
    /\ last_run = [u \in Users |-> NoRun]
    /\ searcher = NoSearcher

\* no block list is being processed on its own
ProcInit ==
    /\ proc_pc = "none"
    /\ proc_blocks = <<>>
    /\ proc_cleaned = <<>>
    /\ proc_chunks = <<>>
    /\ cfg_chunk_size = chunk_size

\* the state when run_ingest_stage is entered for a user of `us` whose
\* document root holds one of the file sets `roots`
IngestInit(us, roots) ==
    /\ main_pc = "start"
    /\ user_id \in us
    /\ docs \in roots
    /\ server = "none"
    /\ srv_job = NoJob
    /\ server_req_q = <<>>
    /\ server_resp_q = <<>>
    /\ answered = {}
    /\ doc_state = [d \in DocSet |-> IF d \in docs THEN "queued" ELSE "absent"]
    /\ doc_blocks = [d \in DocSet |-> <<>>]
    /\ next_result = [d \in Pdfs |-> 0]
    /\ page_state = [c \in Pages |-> "none"]
    /\ held = [c \in Pages |-> NoJob]
    /\ page_result = [c \in Pages |-> <<>>]
    /\ waited = [c \in Pages |-> 0]
    /\ elapsed = [c \in Pages |-> 0]

(***************************************************************************)
(* run_ingest_stage: the main process                                      *)
(***************************************************************************)
IndexIdle == UNCHANGED <<index_vars, proc_vars, rerank_vars>>

\* server = mp.Process(target=model_server, ...); server.start()
ServerStart ==
    /\ main_pc = "start"
    /\ server' = "loading"
    /\ main_pc' = "run"
    /\ UNCHANGED <<user_id, docs, srv_job, server_req_q, server_resp_q, answered,
                   doc_state, doc_blocks, next_result, page_state, held, page_result,
                   waited, elapsed, chunks_file>>
    /\ IndexIdle

\* a task counted as done as soon as it is in the pool
FinishedOnSubmit(d) == doc_state[d] # "absent"

Finished(d) == doc_state[d] \in {"ok", "failed"}

\* for b in results: blocks.extend(b)
RECURSIVE Flatten(_, _)
Flatten(ds, blocks) ==
    IF ds = <<>> THEN <<>> ELSE blocks[Head(ds)] \o Flatten(Tail(ds), blocks)

\* Ingestor.run after the extraction: sanitize, build the chunks
RunChunks(ds, blocks, uid) ==
    build_chunks(remove_page_headers_footers(Flatten(DocList(ds, 1), blocks)), uid)

\* starmap re-raises the exception of a failed task once all tasks are done
StarmapRaises == \E d \in docs : doc_state[d] = "failed"

\* doc_pool.starmap returns or raises; process_blocks, build_chunks, save_json
IngestorFinish ==
    /\ main_pc = "run"
    /\ \A d \in docs : Finished(d)
    /\ IF StarmapRaises
       THEN /\ main_pc' = "aborted"
            /\ UNCHANGED chunks_file
       ELSE /\ main_pc' = "saved"
            /\ chunks_file' = [chunks_file EXCEPT ![user_id] =
                                  File(RunChunks(docs, doc_blocks, user_id))]
    /\ UNCHANGED <<user_id, docs, server, srv_job, server_req_q, server_resp_q, answered,
                   doc_state, doc_blocks, next_result, page_state, held, page_result,
                   waited, elapsed>>
    /\ IndexIdle

\* server_req_q.put(None)
PutSentinel ==
    /\ main_pc = "saved"
    /\ server_req_q' = Append(server_req_q, Sentinel)
    /\ main_pc' = "sentinel"
    /\ UNCHANGED <<user_id, docs, server, srv_job, server_resp_q, answered,
                   doc_state, doc_blocks, next_result, page_state, held, page_result,
                   waited, elapsed, chunks_file>>
    /\ IndexIdle

\* server_resp_q.put(None)
PutRespNone ==
    /\ main_pc = "sentinel"
    /\ server_resp_q' = Append(server_resp_q, Sentinel)
    /\ main_pc' = "join"
    /\ UNCHANGED <<user_id, docs, server, srv_job, server_req_q, answered,
                   doc_state, doc_blocks, next_result, page_state, held, page_result,
                   waited, elapsed, chunks_file>>
    /\ IndexIdle

\* server.join()
ServerJoin ==
    /\ main_pc = "join"
    /\ server \in {"stopped", "dead"}
    /\ main_pc' = "done"
    /\ UNCHANGED <<user_id, docs, server, srv_job, server_req_q, server_resp_q, answered,
                   doc_state, doc_blocks, next_result, page_state, held, page_result,
                   waited, elapsed, chunks_file>>
    /\ IndexIdle

(***************************************************************************)
(* model_server                                                            *)
(***************************************************************************)
\* model = YOLO(model_path): the process dies if the model cannot be loaded
ServerLoad ==
    /\ server = "loading"
    /\ server' \in {"ready", "dead"}
    /\ UNCHANGED <<main_pc, user_id, docs, srv_job, server_req_q, server_resp_q, answered,
                   doc_state, doc_blocks, next_result, page_state, held, page_result,
                   waited, elapsed, chunks_file>>
    /\ IndexIdle

\* the loop going on to the next item after a None
ServerGetOn ==
    /\ server = "ready"
    /\ server_req_q # <<>>
    /\ server_req_q' = Tail(server_req_q)
    /\ IF Head(server_req_q) = Sentinel
       THEN server' = "ready" /\ UNCHANGED srv_job
       ELSE server' = "busy" /\ srv_job' = Head(server_req_q)
    /\ UNCHANGED <<main_pc, user_id, docs, server_resp_q, answered,
                   doc_state, doc_blocks, next_result, page_state, held, page_result,
                   waited, elapsed, chunks_file>>
    /\ IndexIdle

\* job = server_req_q.get(); if job is None: break
ServerGet ==
    /\ server = "ready"
    /\ server_req_q # <<>>
    /\ server_req_q' = Tail(server_req_q)
    /\ IF Head(server_req_q) = Sentinel
       THEN server' = "stopped" /\ UNCHANGED srv_job
       ELSE server' = "busy" /\ srv_job' = Head(server_req_q)
    /\ UNCHANGED <<main_pc, user_id, docs, server_resp_q, answered,
                   doc_state, doc_blocks, next_result, page_state, held, page_result,
                   waited, elapsed, chunks_file>>
    /\ IndexIdle

\* results = model.predict(...); server_resp_q.put((job_id, results))
ServerPut ==
    /\ server = "busy"
    /\ server_resp_q' = Append(server_resp_q,
                               [jid |-> srv_job.job_id, results |-> Predict(srv_job.img)])
    /\ answered' = answered \cup {srv_job.job_id}
    /\ srv_job' = NoJob
    /\ server' = "ready"
    /\ UNCHANGED <<main_pc, user_id, docs, server_req_q,
                   doc_state, doc_blocks, next_result, page_state, held, page_result,
                   waited, elapsed, chunks_file>>
    /\ IndexIdle

(***************************************************************************)
(* process_document_task / LayoutExtractor.extract                         *)
(***************************************************************************)
Executing(d) == doc_state[d] \in {"running", "raising"}

\* a pool process takes the next task of the starmap
DocStart(d) ==
    /\ main_pc = "run"
    /\ doc_state[d] = "queued"
    /\ Cardinality({e \in docs : Executing(e)}) < POOL_PROCESSES
    /\ \A e \in docs : DocOrder(e) < DocOrder(d) => doc_state[e] # "queued"
    /\ doc_state' = [doc_state EXCEPT ![d] = "running"]
    /\ page_state' = [c \in Pages |->
                        IF c \in PagesOf(d) /\ Suffix(d) = ".pdf" THEN "pending"
                        ELSE page_state[c]]
    /\ UNCHANGED <<main_pc, user_id, docs, server, srv_job, server_req_q, server_resp_q,
                   answered, doc_blocks, next_result, held, page_result,
                   waited, elapsed, chunks_file>>
    /\ IndexIdle

\* extract() of a file that needs no page job: .docx, .txt, or ValueError
DocExtract(d) ==
    /\ doc_state[d] = "running"
    /\ Suffix(d) # ".pdf"
    /\ IF Suffix(d) = ".docx"
       THEN /\ doc_blocks' = [doc_blocks EXCEPT ![d] = Tag(extract_docx(d), d, user_id)]
            /\ doc_state' = [doc_state EXCEPT ![d] = "ok"]
       ELSE IF Suffix(d) = ".txt"
       THEN /\ doc_blocks' = [doc_blocks EXCEPT ![d] = Tag(extract_txt(d), d, user_id)]
            /\ doc_state' = [doc_state EXCEPT ![d] = "ok"]
       ELSE /\ doc_state' = [doc_state EXCEPT ![d] = "failed"]
            /\ UNCHANGED doc_blocks
    /\ UNCHANGED <<main_pc, user_id, docs, server, srv_job, server_req_q, server_resp_q,
                   answered, next_result, page_state, held, page_result,
                   waited, elapsed, chunks_file>>
    /\ IndexIdle

InFlight(c) == page_state[c] \in {"wait", "hold"}

\* blocks = [blk for lst in page_blocks_lists for blk in lst]; sorted(...)
PdfBlocks(d, results) ==
    SortBlocks(Concat([k \in 1..PageCount(d) |-> results[<<d, k - 1>>]]))

\* for result in executor.map(page_job, tasks): the next result is yielded,
\* or its exception raised (the futures not yet started are cancelled);
\* after the last one the blocks are sorted and returned
DocCollect(d) ==
    /\ doc_state[d] = "running"
    /\ Suffix(d) = ".pdf"
    /\ IF next_result[d] = PageCount(d)
       THEN /\ doc_blocks' = [doc_blocks EXCEPT ![d] = Tag(PdfBlocks(d, page_result), d, user_id)]
            /\ doc_state' = [doc_state EXCEPT ![d] = "ok"]
            /\ UNCHANGED <<next_result, page_state>>
       ELSE /\ page_state[<<d, next_result[d]>>] \in {"done", "failed"}
            /\ IF page_state[<<d, next_result[d]>>] = "done"
               THEN /\ next_result' = [next_result EXCEPT ![d] = @ + 1]
                    /\ UNCHANGED <<doc_state, page_state>>
               ELSE /\ doc_state' = [doc_state EXCEPT ![d] = "raising"]
                    /\ page_state' = [c \in Pages |->
                                        IF c \in PagesOf(d) /\ page_state[c] = "pending"
                                        THEN "cancelled" ELSE page_state[c]]
                    /\ UNCHANGED next_result
            /\ UNCHANGED doc_blocks
    /\ UNCHANGED <<main_pc, user_id, docs, server, srv_job, server_req_q, server_resp_q,
                   answered, held, page_result, waited, elapsed, chunks_file>>
    /\ IndexIdle

\* the with-block of the executor waits for the running page jobs, then the
\* exception leaves _extract_pdf, extract and process_document_task
DocRaise(d) ==
    /\ doc_state[d] = "raising"
    /\ \A c \in PagesOf(d) : ~InFlight(c)
    /\ doc_state' = [doc_state EXCEPT ![d] = "failed"]
    /\ UNCHANGED <<main_pc, user_id, docs, server, srv_job, server_req_q, server_resp_q,
                   answered, doc_blocks, next_result, page_state, held, page_result,
                   waited, elapsed, chunks_file>>
    /\ IndexIdle

(***************************************************************************)
(* page_job                                                                *)
(***************************************************************************)
\* a caller that drops a response that is not its own
RequeueDrop(q, item) == q

\* server_resp_q.put((jid, results)) of a response that is not the caller's
Requeue(q, item) == Append(q, item)

\* page_job started for a page whatever the number of busy workers
PageSubmitNoLimit(c) ==
    /\ page_state[c] = "pending"
    /\ \A e \in PagesOf(c[1]) : e[2] < c[2] => page_state[e] # "pending"
    /\ server_req_q' = Append(server_req_q, [job_id |-> c, img |-> c])
    /\ page_state' = [page_state EXCEPT ![c] = "wait"]
    /\ waited' = [waited EXCEPT ![c] = 0]
    /\ elapsed' = [elapsed EXCEPT ![c] = 0]
    /\ UNCHANGED <<main_pc, user_id, docs, server, srv_job, server_resp_q,
                   answered, doc_state, doc_blocks, next_result, held, page_result,
                   chunks_file>>
    /\ IndexIdle

\* a worker thread of the document's executor takes the next page:
\* job_id = str(uuid.uuid4()); server_req_q.put((job_id, page_png_bytes))
PageSubmit(c) ==
    /\ page_state[c] = "pending"
    /\ Cardinality({e \in PagesOf(c[1]) : InFlight(e)}) < MAX_WORKERS
    /\ \A e \in PagesOf(c[1]) : e[2] < c[2] => page_state[e] # "pending"
    /\ server_req_q' = Append(server_req_q, [job_id |-> c, img |-> c])
    /\ page_state' = [page_state EXCEPT ![c] = "wait"]
    /\ waited' = [waited EXCEPT ![c] = 0]
    /\ elapsed' = [elapsed EXCEPT ![c] = 0]
    /\ UNCHANGED <<main_pc, user_id, docs, server, srv_job, server_resp_q,
                   answered, doc_state, doc_blocks, next_result, held, page_result,
                   chunks_file>>
    /\ IndexIdle

\* the loop left with whatever response the get returned
PageGetAny(c) ==
    /\ page_state[c] = "wait"
    /\ server_resp_q # <<>>
    /\ server_resp_q' = Tail(server_resp_q)
    /\ IF Head(server_resp_q).jid \in Pages
       THEN /\ page_state' = [page_state EXCEPT ![c] = "done"]
            /\ page_result' = [page_result EXCEPT ![c] =
                                  page_job_blocks(c, Head(server_resp_q).results)]
            /\ elapsed' = [elapsed EXCEPT ![c] = 0]
            /\ UNCHANGED held
       ELSE /\ page_state' = [page_state EXCEPT ![c] = "hold"]
            /\ held' = [held EXCEPT ![c] = Head(server_resp_q)]
            /\ UNCHANGED <<page_result, elapsed>>
    /\ waited' = [waited EXCEPT ![c] = 0]
    /\ UNCHANGED <<main_pc, user_id, docs, server, srv_job, server_req_q,
                   answered, doc_state, doc_blocks, next_result, chunks_file>>
    /\ IndexIdle

\* jid, results = server_resp_q.get(timeout=30) returns an item: the
\* caller's own response ends the loop and the blocks are built from it
PageGet(c) ==
    /\ page_state[c] = "wait"
    /\ server_resp_q # <<>>
    /\ server_resp_q' = Tail(server_resp_q)
    /\ IF Head(server_resp_q).jid = c
       THEN /\ page_state' = [page_state EXCEPT ![c] = "done"]
            /\ page_result' = [page_result EXCEPT ![c] =
                                  page_job_blocks(c, Head(server_resp_q).results)]
            /\ elapsed' = [elapsed EXCEPT ![c] = 0]
            /\ UNCHANGED held
       ELSE /\ page_state' = [page_state EXCEPT ![c] = "hold"]
            /\ held' = [held EXCEPT ![c] = Head(server_resp_q)]
            /\ UNCHANGED <<page_result, elapsed>>
    /\ waited' = [waited EXCEPT ![c] = 0]
    /\ UNCHANGED <<main_pc, user_id, docs, server, srv_job, server_req_q,
                   answered, doc_state, doc_blocks, next_result, chunks_file>>
    /\ IndexIdle

\* else: server_resp_q.put((jid, results)), and the loop calls get again
PageRequeue(c) ==
    /\ page_state[c] = "hold"
    /\ server_resp_q' = Requeue(server_resp_q, held[c])
    /\ held' = [held EXCEPT ![c] = NoJob]
    /\ page_state' = [page_state EXCEPT ![c] = "wait"]
    /\ UNCHANGED <<main_pc, user_id, docs, server, srv_job, server_req_q,
                   answered, doc_state, doc_blocks, next_result, page_result,
                   waited, elapsed, chunks_file>>
    /\ IndexIdle

\* the get has blocked for its whole timeout on an empty queue: queue.Empty
PageTimeout(c) ==
    /\ page_state[c] = "wait"
    /\ server_resp_q = <<>>
    /\ waited[c] = TicksPerTimeout
    /\ page_state' = [page_state EXCEPT ![c] = "failed"]
    /\ waited' = [waited EXCEPT ![c] = 0]
    /\ elapsed' = [elapsed EXCEPT ![c] = 0]
    /\ UNCHANGED <<main_pc, user_id, docs, server, srv_job, server_req_q, server_resp_q,
                   answered, doc_state, doc_blocks, next_result, held, page_result,
                   chunks_file>>
    /\ IndexIdle

\* time passes: one tick for every page_job in its loop; a get that has
\* used up its timeout returns or raises before the next tick, and the put
\* of a response that is not the caller's follows its get at once
Tick ==
    /\ \E c \in Pages : InFlight(c)
    /\ \A c \in Pages : page_state[c] # "hold"
    /\ \A c \in Pages : page_state[c] = "wait" => waited[c] < TicksPerTimeout
    /\ waited' = [c \in Pages |-> IF page_state[c] = "wait" THEN waited[c] + 1 ELSE waited[c]]
    /\ elapsed' = [c \in Pages |->
                     IF InFlight(c) /\ elapsed[c] < ElapsedCap THEN elapsed[c] + 1
                     ELSE elapsed[c]]
    /\ UNCHANGED <<main_pc, user_id, docs, server, srv_job, server_req_q, server_resp_q,
                   answered, doc_state, doc_blocks, next_result, page_state, held,
                   page_result, chunks_file>>
    /\ IndexIdle

IngestNext ==
    \/ ServerStart
    \/ ServerLoad
    \/ ServerGet
    \/ ServerPut
    \/ \E d \in docs : DocStart(d)
    \/ \E d \in docs : DocExtract(d)
    \/ \E d \in docs : DocCollect(d)
    \/ \E d \in docs : DocRaise(d)
    \/ \E c \in Pages : PageSubmit(c)
    \/ \E c \in Pages : PageGet(c)
    \/ \E c \in Pages : PageRequeue(c)
    \/ \E c \in Pages : PageTimeout(c)
    \/ Tick
    \/ IngestorFinish
    \/ PutSentinel
    \/ PutRespNone
    \/ ServerJoin

\* an ingestion run of either user over any document root of at most MaxDocs files
InitIngest ==
    /\ IngestInit(Users, {ds \in SUBSET BaseDocs : Cardinality(ds) <= MaxDocs})
    /\ chunks_file = [u \in Users |-> NoFile]
    /\ StoresInit
    /\ RerankInit
    /\ ProcInit

SpecIngest == InitIngest /\ [][IngestNext]_vars

\* the job queue protocol: a run over a document root of image-paginated files
QueueNext ==
    \/ ServerStart
    \/ ServerLoad
    \/ ServerGet
    \/ ServerPut
    \/ \E d \in docs : DocStart(d)
    \/ \E d \in docs : DocCollect(d)
    \/ \E d \in docs : DocRaise(d)
    \/ \E c \in Pages : PageSubmit(c)
    \/ \E c \in Pages : PageGet(c)
    \/ \E c \in Pages : PageRequeue(c)
    \/ \E c \in Pages : PageTimeout(c)
    \/ Tick
    \/ IngestorFinish
    \/ PutSentinel
    \/ PutRespNone
    \/ ServerJoin

InitQueue ==
    /\ IngestInit({"A"}, SUBSET (Pdfs \cap BaseDocs))
    /\ chunks_file = [u \in Users |-> NoFile]
    /\ StoresInit
    /\ RerankInit
    /\ ProcInit

SpecQueue == InitQueue /\ [][QueueNext]_vars

\* the run with a model server that answers before any get of a caller
\* times out
LiveNext ==
    \/ ServerStart
    \/ ServerLoad
    \/ ServerGet
    \/ ServerPut
    \/ \E d \in docs : DocStart(d)
    \/ \E d \in docs : DocCollect(d)
    \/ \E c \in Pages : PageSubmit(c)
    \/ \E c \in Pages : PageGet(c)
    \/ \E c \in Pages : PageRequeue(c)
    \/ IngestorFinish
    \/ PutSentinel
    \/ PutRespNone
    \/ ServerJoin

\* the server process and every page_job thread keep being scheduled: a
\* step of one of them that stays possible is taken
LiveFairness ==
    /\ WF_vars(ServerLoad \/ ServerGet \/ ServerPut)
    /\ \A c \in Pages : WF_vars(PageSubmit(c) \/ PageGet(c) \/ PageRequeue(c))

SpecLive == InitQueue /\ [][LiveNext]_vars /\ LiveFairness

\* the roots that fill the pool of document tasks and the executor of page
\* jobs: POOL_PROCESSES + 1 text files, or one PDF of MAX_WORKERS + 1 pages
PoolRoots == {PoolTxt, {"f.pdf"}}

InitPool ==
    /\ IngestInit({"A"}, PoolRoots)
    /\ chunks_file = [u \in Users |-> NoFile]
    /\ StoresInit
    /\ RerankInit
    /\ ProcInit

\* an ingestion run over a root with more tasks than workers
SpecPool == InitPool /\ [][IngestNext]_vars

(***************************************************************************)
(* Ingestor.run as one step, for the index specifications: every page job  *)
(* of the run gets its answer.                                             *)
(***************************************************************************)
MaxBuilds == 2          \* Indexer.run calls, all users together
MaxTopK == 2            \* top_k of a search

Supported(d) == Suffix(d) \in {".pdf", ".docx", ".txt"}

\* what process_document_task returns for a document whose extraction succeeds
ExtractOk(d, uid) ==
    IF Suffix(d) = ".pdf"
    THEN Tag(PdfBlocks(d, [c \in Pages |-> page_job_blocks(c, Predict(c))]), d, uid)
    ELSE IF Suffix(d) = ".docx" THEN Tag(extract_docx(d), d, uid)
    ELSE Tag(extract_txt(d), d, uid)

IngestIdle ==
    UNCHANGED <<main_pc, user_id, docs, server, srv_job, server_req_q, server_resp_q,
                answered, doc_state, doc_blocks, next_result, page_state, held,
                page_result, waited, elapsed, proc_vars, rerank_vars>>

\* the document roots the users of the index specification ingest
IndexRoots == {ds \in SUBSET {"a.pdf", "c.txt"} : Cardinality(ds) <= MaxDocs}

\* the chunks Ingestor.run writes, tabulated by user and document root
RunTable ==
    {[user |-> u, root |-> ds,
      chunks |-> RunChunks(ds, [d \in DocSet |-> ExtractOk(d, u)], u)] :
        u \in Users, ds \in IndexRoots}

RunOutput(u, ds) == (CHOOSE t \in RunTable : t.user = u /\ t.root = ds).chunks

RECURSIVE SumOver(_, _)
SumOver(f, S) ==
    IF S = {} THEN 0
    ELSE LET x == CHOOSE y \in S : TRUE IN f[x] + SumOver(f, S \ {x})

\* the Indexer.run calls started so far, by all users; the runs of the
\* model stop after MaxBuilds of them
TotalBuilds == SumOver(builds, Users)

\* the run with the chunks appended to the ones already in the file
IngestorRunAppend(u, ds) ==
    /\ indexer_pc[u] = "idle"
    /\ TotalBuilds < MaxBuilds
    /\ \A d \in ds : Supported(d)
    /\ chunks_file' = [chunks_file EXCEPT ![u] =
            File((IF chunks_file[u] = NoFile THEN <<>> ELSE chunks_file[u].data)
                 \o RunOutput(u, ds))]
    /\ UNCHANGED index_vars
    /\ IngestIdle

\* Ingestor.run for user u over the document root ds
IngestorRun(u, ds) ==
    /\ indexer_pc[u] = "idle"
    /\ TotalBuilds < MaxBuilds
    /\ \A d \in ds : Supported(d)
    /\ chunks_file' = [chunks_file EXCEPT ![u] = File(RunOutput(u, ds))]
    /\ UNCHANGED index_vars
    /\ IngestIdle

(***************************************************************************)
(* Indexer                                                                 *)
(***************************************************************************)
\* str(ch["chunk_id"]) and int(...)
StrOf(n) == <<"str", n>>
IntOf(str) == str[2]

\* self.embed_model.encode(text), normalized: the vector of a text
Embed(text) == [vec |-> text]

\* the record index_chunks builds for a chunk
RecordOf(ch, u) ==
    [id |-> StrOf(ch.chunk_id), document |-> ch.text,
     metadata |-> [user_id |-> u, filename |-> ch.filename, chunk_id |-> ch.chunk_id],
     embedding |-> Embed(ch.text)]

StoredIds(coll) == {coll[i].id : i \in 1..Len(coll)}

\* collection.add(ids, documents, metadatas, embeddings): a record whose id
\* is already in the collection is not inserted
RECURSIVE ChromaAdd(_, _)
ChromaAdd(coll, records) ==
    IF records = <<>> THEN coll
    ELSE ChromaAdd(IF Head(records).id \in StoredIds(coll) THEN coll
                   ELSE Append(coll, Head(records)),
                   Tail(records))

\* collection.get(ids): the stored records with these ids, in stored order
ChromaGet(coll, ids) == SelectSeq(coll, LAMBDA r : r.id \in ids)

\* load_chunks
load_chunks(u) == IF chunks_file[u] = NoFile THEN <<>> ELSE chunks_file[u].data

\* Indexer.run: load_chunks; with no chunk the run ends here; otherwise
\* index_chunks embeds the chunks and adds them to the collection
IndexerRun(u) ==
    /\ indexer_pc[u] = "idle"
    /\ TotalBuilds < MaxBuilds
    /\ IF load_chunks(u) = <<>>
       THEN /\ last_run' = [last_run EXCEPT ![u] = Run(<<>>)]
            /\ builds' = [builds EXCEPT ![u] = @ + 1]
            /\ UNCHANGED <<collection, indexer_pc, indexer_chunks>>
       ELSE /\ indexer_chunks' = [indexer_chunks EXCEPT ![u] = load_chunks(u)]
            /\ collection' = ChromaAdd(collection,
                    [i \in 1..Len(load_chunks(u)) |-> RecordOf(load_chunks(u)[i], u)])
            /\ builds' = [builds EXCEPT ![u] = @ + 1]
            /\ indexer_pc' = [indexer_pc EXCEPT ![u] = "added"]
            /\ UNCHANGED last_run
    /\ UNCHANGED <<chunks_file, hnsw_file, mapping_file, searcher>>
    /\ IngestIdle

\* index.add_items(embeddings, ids=arange(n)); index.save_index(hnsw_index_<u>.bin)
IndexerSaveIndex(u) ==
    /\ indexer_pc[u] = "added"
    /\ hnsw_file' = [hnsw_file EXCEPT ![u] =
            [exists |-> TRUE, build |-> builds[u],
             items |-> [i \in 1..Len(indexer_chunks[u]) |-> Embed(indexer_chunks[u][i].text)]]]
    /\ indexer_pc' = [indexer_pc EXCEPT ![u] = "saved"]
    /\ UNCHANGED <<chunks_file, collection, mapping_file, indexer_chunks, builds,
                   last_run, searcher>>
    /\ IngestIdle

\* idx_to_uid = {str(i): str(ch["chunk_id"])}; json.dump to mapping_<u>.json
IndexerSaveMapping(u) ==
    /\ indexer_pc[u] = "saved"
    /\ mapping_file' = [mapping_file EXCEPT ![u] =
            [exists |-> TRUE, build |-> builds[u],
             map |-> [i \in 0..(Len(indexer_chunks[u]) - 1) |->
                         StrOf(indexer_chunks[u][i + 1].chunk_id)]]]
    /\ indexer_pc' = [indexer_pc EXCEPT ![u] = "idle"]
    /\ last_run' = [last_run EXCEPT ![u] = Run(indexer_chunks[u])]
    /\ indexer_chunks' = [indexer_chunks EXCEPT ![u] = <<>>]
    /\ UNCHANGED <<chunks_file, collection, hnsw_file, builds, searcher>>
    /\ IngestIdle

(***************************************************************************)
(* Searcher                                                                *)
(***************************************************************************)
\* the queries: two that are no chunk's text and one that is the text of the
\* last chunk of c.txt
Queries == { <<"a">>, <<"b", " ", "c">>, <<"a", " ", "A", " ", "c">> }

Abs(n) == IF n < 0 THEN -n ELSE n

\* the cosine distance of two vectors, by the texts they encode
Dist(v, w) == IF v = w THEN 0 ELSE 1 + Abs(Len(v.vec) - Len(w.vec))

\* a loader that falls back on the index file of any user
load_index_any(u) ==
    IF hnsw_file[u] # NoFile \/ \A v \in Users : hnsw_file[v] = NoFile
    THEN hnsw_file[u]
    ELSE hnsw_file[CHOOSE v \in Users : hnsw_file[v] # NoFile]

\* index.load_index(hnsw_index_<u>.bin): the file of the Searcher's user
load_index(u) == hnsw_file[u]

\* Searcher.__init__: load_index fails when the user's index file is missing;
\* "at" records how many Indexer.run calls of the user had started by then
SearcherInit(u) ==
    /\ searcher.pc \in {"none", "done", "error"}
    /\ IF load_index(u) = NoFile
       THEN searcher' = [pc |-> "error", user |-> u, at |-> builds[u],
                         err |-> "IndexNotFound"]
       ELSE searcher' = [pc |-> "ready", user |-> u, at |-> builds[u],
                         index |-> load_index(u)]
    /\ UNCHANGED <<chunks_file, collection, hnsw_file, mapping_file, indexer_pc,
                   indexer_chunks, builds, last_run>>
    /\ IngestIdle

\* index.knn_query(query_emb, k): k distinct labels of the loaded index by
\* ascending distance (the index is approximate: any k of its items)
KnnQuery(index, qv, k) ==
    {labs \in [1..k -> 0..(Len(index.items) - 1)] :
        /\ \A i, j \in 1..k : i # j => labs[i] # labs[j]
        /\ \A i \in 1..(k - 1) :
              Dist(qv, index.items[labs[i] + 1]) <= Dist(qv, index.items[labs[i + 1] + 1])}

\* the loop over results["ids"]: the i-th fetched record with the i-th score
Matched(results, scores) ==
    [i \in 1..Len(results) |->
        [id |-> IntOf(results[i].id), text |-> results[i].document,
         score |-> scores[i], metadata |-> results[i].metadata]]

\* Searcher.search(query, top_k)
Search(query, top_k) ==
    /\ searcher.pc = "ready"
    /\ LET u == searcher.user
           qv == Embed(query)
       IN  IF mapping_file[u] = NoFile
           THEN searcher' = [pc |-> "error", user |-> u, at |-> searcher.at,
                  err |-> "MappingNotFound"]
           ELSE IF top_k > Len(searcher.index.items)
           THEN searcher' = [pc |-> "error", user |-> u, at |-> searcher.at,
                  err |-> "KnnError"]
           ELSE \E labs \in KnnQuery(searcher.index, qv, top_k) :
                  IF \E i \in 1..top_k : labs[i] \notin DOMAIN mapping_file[u].map
                  THEN searcher' = [pc |-> "error", user |-> u, at |-> searcher.at,
                  err |-> "KeyError"]
                  ELSE LET ids == [i \in 1..top_k |-> IntOf(mapping_file[u].map[labs[i]])]
                           scores == [i \in 1..top_k |->
                                         Dist(qv, searcher.index.items[labs[i] + 1])]
                           results == ChromaGet(collection, {StrOf(ids[i]) : i \in 1..top_k})
                       IN  searcher' = [pc |-> "done", user |-> u, at |-> searcher.at,
                                        index_build |-> searcher.index.build,
                                        mapping_build |-> mapping_file[u].build,
                                        labels |-> labs,
                                        result |-> Matched(results, scores)]
    /\ UNCHANGED <<chunks_file, collection, hnsw_file, mapping_file, indexer_pc,
                   indexer_chunks, builds, last_run>>
    /\ IngestIdle

IndexNext ==
    \/ \E u \in Users : \E ds \in IndexRoots : IngestorRun(u, ds)
    \/ \E u \in Users : IndexerRun(u)
    \/ \E u \in Users : IndexerSaveIndex(u)
    \/ \E u \in Users : IndexerSaveMapping(u)
    \/ \E u \in Users : SearcherInit(u)
    \/ \E q \in Queries : \E k \in 1..MaxTopK : Search(q, k)

\* the users' ingestion, indexing and search operations on the shared stores
InitIndex ==
    /\ IngestInit({"A"}, {{}})
    /\ chunks_file = [u \in Users |-> NoFile]
    /\ StoresInit
    /\ RerankInit
    /\ ProcInit

SpecIndex == InitIndex /\ [][IndexNext]_vars

(***************************************************************************)
(* Ingestor.process_blocks and build_chunks on one block list: the blocks  *)
(* of a document come in (page, y) order, as _extract_pdf sorts them.      *)
(***************************************************************************)
MaxBlocks == 4          \* blocks in the list

\* a text of max_header_words + 1 words, one of max_header_chars + 1
\* characters, and one of three words that is longer than chunk_size
ManyWords == [i \in 1..(2 * max_header_words + 1) |-> IF i % 2 = 1 THEN "w" ELSE " "]
ManyChars == [i \in 1..(max_header_chars + 1) |-> "c"]
LongText  == [i \in 1..(3 * (chunk_size \div 2) + 2) |->
                 IF i % (chunk_size \div 2 + 1) = 0 THEN " " ELSE "c"]

\* a text of min_words words
FullText == [i \in 1..(2 * min_words - 1) |-> IF i % 2 = 1 THEN "w" ELSE " "]

\* the pages and the vertical positions of the blocks
BlockPages == 0..(min_repeat - 1)
BlockYs == {0, y_tolerance, 2 * y_tolerance + 1}

Block(type, text, p, y, d) ==
    [type |-> type, text |-> text, page |-> p, y |-> y, filename |-> d, user_id |-> "A"]

\* the blocks process_document_task can return for a.pdf: a short text
\* anywhere on a page, a typed header at the top and a typed footer at the
\* bottom, and texts over the ceilings at the top
BlockUniverse ==
    {Block("text", <<"h">>, p, y, "a.pdf") : p \in BlockPages, y \in BlockYs}
    \cup {Block("page-header", <<"H">>, p, SetMin(BlockYs), "a.pdf") : p \in BlockPages}
    \cup {Block("page-footer", <<"h">>, p, SetMax(BlockYs), "a.pdf") : p \in BlockPages}
    \cup {Block("text", ManyWords, p, SetMin(BlockYs), "a.pdf") : p \in BlockPages}
    \cup {Block("text", ManyChars, p, SetMin(BlockYs), "a.pdf") : p \in BlockPages}

\* the blocks of two documents of which one has a text that is split and a
\* text that is not undersized
ChunkUniverse ==
    {Block("text", <<"h">>, p, SetMin(BlockYs), "a.pdf") : p \in {0, 1}}
    \cup {Block("text", FullText, 0, y_tolerance, "a.pdf")}
    \cup {Block("text", LongText, p, SetMax(BlockYs), "a.pdf") : p \in {0, 1}}
    \cup {Block("page-header", <<"H">>, 0, SetMin(BlockYs), "a.pdf")}
    \cup {Block("text", <<"b">>, 0, SetMin(BlockYs), "b.pdf")}

\* the rank of a block among the blocks detected at one position: typed
\* headers, then texts by length, then typed footers
KindRank(b) ==
    CASE b.type = "page-header" -> 0
      [] b.type = "page-footer" -> 2 * Len(ManyChars)
      [] OTHER                  -> Len(b.text)

\* the order in which the blocks of the documents reach the list: starmap
\* returns the documents in submission order, each sorted by (page, y); the
\* blocks of one position are taken in the order of their ranks
BlockLeq(a, b) ==
    IF a.filename = b.filename
    THEN IF a.page = b.page /\ a.y = b.y THEN KindRank(a) <= KindRank(b) ELSE KeyLeq(a, b)
    ELSE DocOrder(a.filename) < DocOrder(b.filename)

\* for b in results: blocks.extend(b) -- the next block of the results
AddBlock(b) ==
    /\ proc_pc = "collect"
    /\ Len(proc_blocks) < MaxBlocks
    /\ proc_blocks # <<>> => BlockLeq(proc_blocks[Len(proc_blocks)], b)
    /\ proc_blocks' = Append(proc_blocks, b)
    /\ UNCHANGED <<proc_pc, proc_cleaned, proc_chunks, cfg_chunk_size>>
    /\ UNCHANGED <<ingest_vars, chunks_file, index_vars, rerank_vars>>

\* blocks = self.proc.remove_page_headers_footers(blocks)
ProcessBlocks ==
    /\ proc_pc = "collect"
    /\ proc_cleaned' = remove_page_headers_footers(proc_blocks)
    /\ proc_pc' = "cleaned"
    /\ UNCHANGED <<proc_blocks, proc_chunks, cfg_chunk_size>>
    /\ UNCHANGED <<ingest_vars, chunks_file, index_vars, rerank_vars>>

\* chunks = self.build_chunks(blocks)
BuildChunks ==
    /\ proc_pc = "cleaned"
    /\ proc_chunks' = build_chunks(proc_cleaned, user_id)
    /\ proc_pc' = "chunked"
    /\ UNCHANGED <<proc_blocks, proc_cleaned, cfg_chunk_size>>
    /\ UNCHANGED <<ingest_vars, chunks_file, index_vars, rerank_vars>>

BlocksNext ==
    \/ \E b \in BlockUniverse : AddBlock(b)
    \/ ProcessBlocks

ChunksNext ==
    \/ \E b \in ChunkUniverse : AddBlock(b)
    \/ ProcessBlocks
    \/ BuildChunks

InitBlocks ==
    /\ IngestInit({"A"}, {{}})
    /\ chunks_file = [u \in Users |-> NoFile]
    /\ StoresInit
    /\ RerankInit
    /\ proc_pc = "collect"
    /\ proc_blocks = <<>>
    /\ proc_cleaned = <<>>
    /\ proc_chunks = <<>>
    /\ cfg_chunk_size = chunk_size

\* the values of chunking.chunk_size in the configuration: the one the
\* splitter is built with and a smaller one
ConfigChunkSizes == {chunk_size \div 4, chunk_size}

\* chunk_size = int(config["chunking"]["chunk_size"]);
\* ChunkBuilder(tokenizer_model=..., chunk_size=chunk_size, logger=logger)
InitChunks ==
    /\ IngestInit({"A"}, {{}})
    /\ chunks_file = [u \in Users |-> NoFile]
    /\ StoresInit
    /\ RerankInit
    /\ proc_pc = "collect"
    /\ proc_blocks = <<>>
    /\ proc_cleaned = <<>>
    /\ proc_chunks = <<>>
    /\ cfg_chunk_size \in ConfigChunkSizes

\* the sanitizer applied to the block lists of a document
SpecBlocks == InitBlocks /\ [][BlocksNext]_vars

\* the sanitizer and the chunk builder applied to the block lists of two documents
SpecChunks == InitChunks /\ [][ChunksNext]_vars

(***************************************************************************)
(* build_chunks on the paragraphs of one text file: _extract_txt gives     *)
(* paragraph i the position y = i on page 0.                               *)
(***************************************************************************)
MaxParas == 12          \* paragraphs of the file (windows + 2)

\* the text of paragraph i: one no other paragraph has, or one that other
\* paragraphs have as well, in another case and with other whitespace
OwnText(i) == [j \in 1..(i + 1) |-> "x"]
SharedText(i) == IF i % 2 = 0 THEN <<"a", " ", "b">> ELSE <<"A", "\n", "b">>

ParaUniverse(i) ==
    {Block("text", txt, 0, i, "c.txt") : txt \in {OwnText(i), SharedText(i)}}

\* the next paragraph of the file
AddPara(b) ==
    /\ proc_pc = "collect"
    /\ Len(proc_blocks) < MaxParas
    /\ b \in ParaUniverse(Len(proc_blocks))
    /\ proc_blocks' = Append(proc_blocks, b)
    /\ UNCHANGED <<proc_pc, proc_cleaned, proc_chunks, cfg_chunk_size>>
    /\ UNCHANGED <<ingest_vars, chunks_file, index_vars, rerank_vars>>

ParasNext ==
    \/ \E i \in 0..(MaxParas - 1) : \E b \in ParaUniverse(i) : AddPara(b)
    \/ ProcessBlocks
    \/ BuildChunks

\* the sanitizer and the chunk builder applied to the paragraphs of a text file
SpecParas == InitBlocks /\ [][ParasNext]_vars

(***************************************************************************)
(* model_server on its own: whoever holds the inbound queue puts page jobs *)
(* and None on it, in any order.                                           *)
(***************************************************************************)
MaxPending == 3         \* items waiting on the inbound queue

\* the job of page c has been put on the inbound queue before
Submitted(c) ==
    \/ \E i \in 1..Len(server_req_q) :
          server_req_q[i] # Sentinel /\ server_req_q[i].job_id = c
    \/ srv_job # NoJob /\ srv_job.job_id = c
    \/ c \in answered

\* server_req_q.put((job_id, page_png_bytes)) with a fresh job id
ClientPutJob(c) ==
    /\ server # "none"
    /\ Len(server_req_q) < MaxPending
    /\ ~Submitted(c)
    /\ server_req_q' = Append(server_req_q, [job_id |-> c, img |-> c])
    /\ UNCHANGED <<main_pc, user_id, docs, server, srv_job, server_resp_q, answered,
                   doc_state, doc_blocks, next_result, page_state, held, page_result,
                   waited, elapsed, chunks_file>>
    /\ IndexIdle

\* server_req_q.put(None)
ClientPutNone ==
    /\ server # "none"
    /\ Len(server_req_q) < MaxPending
    /\ server_req_q' = Append(server_req_q, Sentinel)
    /\ UNCHANGED <<main_pc, user_id, docs, server, srv_job, server_resp_q, answered,
                   doc_state, doc_blocks, next_result, page_state, held, page_result,
                   waited, elapsed, chunks_file>>
    /\ IndexIdle

ServerNext ==
    \/ ServerStart
    \/ ServerLoad
    \/ ServerGet
    \/ ServerPut
    \/ \E c \in Pages : ClientPutJob(c)
    \/ ClientPutNone

InitServer ==
    /\ IngestInit({"A"}, {{}})
    /\ chunks_file = [u \in Users |-> NoFile]
    /\ StoresInit
    /\ RerankInit
    /\ ProcInit

\* the model server and clients that put jobs and None in any order
SpecServer == InitServer /\ [][ServerNext]_vars

(***************************************************************************)
(* Reranker.rerank on one candidate list                                   *)
(***************************************************************************)
MaxCands == 3           \* candidates handed to rerank
MaxRerankK == 3         \* top_k
MaxScore == 2           \* the scores of the cross-encoder are 0..MaxScore

RerankTexts == {"a", "b", "c"}

\* the candidate lists: items with a text and, as their other fields, the
\* position they had in the search result
CandLists ==
    UNION {{[i \in 1..n |-> [id |-> i, text |-> t[i]]] : t \in [1..n -> RerankTexts]} :
              n \in 0..MaxCands}

\* d["rerank_score"] = float(scores[i])
WithScore(d, sc) == [id |-> d.id, text |-> d.text, rerank_score |-> sc]

\* sorted(docs, key=lambda x: x["rerank_score"], reverse=True): by
\* descending score, items of equal score in their input order
InsertDesc(sorted, d) ==
    LET before == SelectSeq(sorted, LAMBDA x : x.rerank_score >= d.rerank_score)
        after  == SelectSeq(sorted, LAMBDA x : x.rerank_score < d.rerank_score)
    IN  before \o <<d>> \o after

RECURSIVE SortedDesc(_, _)
SortedDesc(items, n) ==
    IF n = 0 THEN <<>> ELSE InsertDesc(SortedDesc(items, n - 1), items[n])

\* reranked[:top_k]
FirstN(items, k) == SubSeq(items, 1, IF k < Len(items) THEN k ELSE Len(items))

\* the candidates cut to top_k before they are scored and sorted
rerank_head(items, sc, k) ==
    LET head == FirstN(items, k)
        scored == [i \in 1..Len(head) |-> WithScore(head[i], sc[head[i].text])]
    IN  SortedDesc(scored, Len(scored))

\* Reranker.rerank(query, docs, top_k); sc is what predict returns for the
\* pairs (query, text)
rerank(items, sc, k) ==
    IF items = <<>> THEN <<>>
    ELSE LET scored == [i \in 1..Len(items) |-> WithScore(items[i], sc[items[i].text])]
         IN  FirstN(SortedDesc(scored, Len(scored)), k)

RerankCall ==
    /\ rerank_pc = "called"
    /\ reranked' = rerank(cand_docs, ce_scores, cand_top_k)
    /\ predict_calls' = IF cand_docs = <<>> THEN predict_calls ELSE predict_calls + 1
    /\ rerank_pc' = "returned"
    /\ UNCHANGED <<cand_docs, cand_top_k, ce_scores>>
    /\ UNCHANGED <<ingest_vars, chunks_file, index_vars, proc_vars>>

RerankNext == RerankCall

InitRerank ==
    /\ IngestInit({"A"}, {{}})
    /\ chunks_file = [u \in Users |-> NoFile]
    /\ StoresInit
    /\ ProcInit
    /\ rerank_pc = "called"
    /\ cand_docs \in CandLists
    /\ cand_top_k \in 1..MaxRerankK
    /\ ce_scores \in [RerankTexts -> 0..MaxScore]
    /\ reranked = <<>>
    /\ predict_calls = 0

\* rerank applied to every candidate list, top_k and scoring
SpecRerank == InitRerank /\ [][RerankNext]_vars

(***************************************************************************)
(* Job queue protocol                                                      *)
(***************************************************************************)
InRespQ(j) ==
    {i \in 1..Len(server_resp_q) :
        server_resp_q[i] # Sentinel /\ server_resp_q[i].jid = j}

HeldByOther(j) ==
    {c \in Pages : c # j /\ page_state[c] = "hold" /\ held[c].jid = j}

\* C1: every response the server has emitted is, until its owner dequeues
\* it, exactly once either in the outbound queue or in the hands of a
\* caller that is not its owner and is about to put it back, and it is the
\* same (job_id, results) pair the server emitted; once the owner has
\* dequeued it, it is nowhere.
C1_NoResponseLost ==
    \A j \in answered :
        /\ Cardinality(InRespQ(j)) + Cardinality(HeldByOther(j))
              = IF page_state[j] = "done" THEN 0 ELSE 1
        /\ \A i \in InRespQ(j) : server_resp_q[i].results = Predict(j)
        /\ \A c \in HeldByOther(j) : held[c].results = Predict(j)

\* a caller holds the response of another caller, which is still waiting
\* for it or has timed out
C1_Witness ==
    \E c \in Pages : \E j \in answered :
        /\ c \in HeldByOther(j)
        /\ page_state[j] \in {"wait", "failed"}

\* C2: a page_job whose response has not been emitted is not still in its
\* wait loop once more than 30 s have passed since it put its request.
C2_BoundedWait ==
    \A c \in Pages :
        (InFlight(c) /\ c \notin answered) => Seconds(elapsed[c]) <= GET_TIMEOUT

\* C6: when a page job of a document has timed out and extraction of the
\* document has ended, it has returned the blocks of the document's other
\* pages, sorted by (page, y).
C6_PageFailureContained ==
    \A d \in docs :
        (Finished(d) /\ \E c \in PagesOf(d) : page_state[c] = "failed")
        => /\ doc_state[d] = "ok"
           /\ doc_blocks[d] = Tag(PdfBlocks(d, page_result), d, user_id)

(***************************************************************************)
(* Ingestion run                                                           *)
(***************************************************************************)
RunEnded == main_pc \in {"aborted", "saved", "sentinel", "join", "done"}

\* C5: when the extraction of a document of the run has failed and
\* Ingestor.run has ended, it has persisted the chunk list built from the
\* blocks of the run's other documents.
C5_DocFailureContained ==
    (RunEnded /\ \E d \in docs : doc_state[d] = "failed")
    => /\ main_pc # "aborted"
       /\ chunks_file[user_id] =
            File(RunChunks({d \in docs : doc_state[d] = "ok"}, doc_blocks, user_id))

(***************************************************************************)
(* Index and search                                                        *)
(***************************************************************************)
\* the records of the shared collection that user u's indexing wrote
UserStore(u) == SelectSeq(collection, LAMBDA r : r.metadata.user_id = u)

\* the chunk_ids stored for user u in the collection
StoreIds(u) == {UserStore(u)[i].metadata.chunk_id : i \in 1..Len(UserStore(u))}

\* the chunk_ids reachable through user u's index file and mapping file
IndexIds(u) ==
    IF hnsw_file[u] = NoFile \/ mapping_file[u] = NoFile THEN {}
    ELSE {IntOf(mapping_file[u].map[l]) :
             l \in (0..(Len(hnsw_file[u].items) - 1)) \cap DOMAIN mapping_file[u].map}

\* user u has no Indexer.run in progress and the last one has completed
Completed(u) == indexer_pc[u] = "idle" /\ last_run[u] # NoRun

\* C3: every result a search returns carries the searching user's user_id
\* in its metadata and the text of one of that user's chunks.
C3_UserIsolation ==
    searcher.pc = "done" =>
        \A i \in 1..Len(searcher.result) :
            /\ searcher.result[i].metadata.user_id = searcher.user
            /\ \E ds \in IndexRoots : \E k \in 1..Len(RunOutput(searcher.user, ds)) :
                  RunOutput(searcher.user, ds)[k].text = searcher.result[i].text

\* C4: once an Indexer.run of a user has completed, the chunk_ids reachable
\* through the user's index and mapping are exactly the chunk_ids stored
\* for the user in the collection.
C4_IndexMatchesStore ==
    \A u \in Users : Completed(u) => IndexIds(u) = StoreIds(u)

\* C7: once an Indexer.run on an empty chunk list has completed, the user
\* has an index with zero entries, and a Searcher constructed since then,
\* with no further Indexer.run started, has returned an empty list.
C7_EmptyUser ==
    \A u \in Users :
        (Completed(u) /\ last_run[u] = Run(<<>>))
        => /\ hnsw_file[u] # NoFile
           /\ hnsw_file[u].items = <<>>
           /\ (searcher.pc \in {"done", "error"} /\ searcher.user = u
                  /\ searcher.at = builds[u])
              => (searcher.pc = "done" /\ searcher.result = <<>>)

\* C8: a Searcher of a user none of whose Indexer.run calls has completed
\* never returns results; it ends in an error, which is the index-not-found
\* error of load_index whenever the user has no index file, and otherwise
\* the missing mapping file of the unfinished build.
C8_IndexNotFound ==
    (searcher.pc # "none" /\ last_run[searcher.user] = NoRun)
    => /\ searcher.pc # "done"
       /\ hnsw_file[searcher.user] = NoFile
             => (searcher.pc = "error" /\ searcher.err = "IndexNotFound")
       /\ searcher.pc = "error"
             => searcher.err \in {"IndexNotFound", "MappingNotFound"}

\* the Searcher of a user that has never been indexed has failed with
\* IndexNotFound while another user has a complete, non-empty index
C8_Witness ==
    /\ searcher.pc = "error"
    /\ searcher.err = "IndexNotFound"
    /\ last_run[searcher.user] = NoRun
    /\ \E v \in Users \ {searcher.user} :
          Completed(v) /\ last_run[v] # Run(<<>>) /\ hnsw_file[v] # NoFile

\* C9: a search that returns has used the index and the mapping of one and
\* the same build.
C9_NoPartialState ==
    searcher.pc = "done" => searcher.index_build = searcher.mapping_build

\* C10: once a user, the only one to index, has completed a second or later
\* Indexer.run, every record stored for the user is a chunk of the chunk
\* list of that run, with that chunk's text, and the index and the mapping
\* hold exactly the chunks of that list.
C10_RebuildReplaces ==
    \A u \in Users :
        (Completed(u) /\ builds[u] >= 2 /\ TotalBuilds = builds[u])
        => LET new == last_run[u].chunks
           IN  /\ \A i \in 1..Len(UserStore(u)) :
                     \E k \in 1..Len(new) :
                        /\ new[k].chunk_id = UserStore(u)[i].metadata.chunk_id
                        /\ new[k].text = UserStore(u)[i].document
               /\ new # <<>> =>
                     /\ hnsw_file[u].items = [k \in 1..Len(new) |-> Embed(new[k].text)]
                     /\ mapping_file[u].map =
                           [l \in 0..(Len(new) - 1) |-> StrOf(new[l + 1].chunk_id)]
               /\ new = <<>> => IndexIds(u) = {}

(***************************************************************************)
(* The sanitizer and the chunk builder                                     *)
(***************************************************************************)
\* C11: sanitizing an already sanitized block list changes nothing:
\* remove_page_headers_footers(remove_page_headers_footers(L)) =
\* remove_page_headers_footers(L) for every block list L.
C11_SanitizerIdempotent ==
    proc_pc = "cleaned" => remove_page_headers_footers(proc_cleaned) = proc_cleaned

\* the blocks of the list whose normalized text is txt
Occurrences(txt) == {i \in 1..Len(proc_blocks) : norm_text(proc_blocks[i].text) = txt}

\* txt is a header/footer candidate of the list
Candidate(txt) ==
    /\ txt # <<>>
    /\ Len(txt) <= 80
    /\ WordCount(txt) <= 12
    /\ Cardinality({proc_blocks[i].page : i \in Occurrences(txt)}) >= 3
    /\ \A i, j \in Occurrences(txt) : proc_blocks[i].y - proc_blocks[j].y <= 20

\* C12: a normalized text of at most 80 characters and 12 words is a
\* candidate exactly when its occurrences lie on at least 3 distinct pages and
\* their vertical positions spread over at most 20 units; the sanitizer drops
\* every block whose normalized text is a candidate and no other block, the
\* blocks it drops for their page-header type apart.
C12_CandidateRule ==
    proc_pc = "cleaned" =>
        proc_cleaned = SelectSeq(proc_blocks,
            LAMBDA b : /\ ~Candidate(norm_text(b.text))
                       /\ LowerType(b.type) # "page-header")

\* three blocks with one text on three pages, spread over exactly 20 units,
\* have all been dropped
C12_Witness ==
    /\ proc_pc = "cleaned"
    /\ Len(proc_blocks) = 3
    /\ \A i \in 1..3 : proc_blocks[i].type = "text" /\ proc_blocks[i].text = <<"h">>
    /\ {proc_blocks[i].page : i \in 1..3} = {0, 1, 2}
    /\ {proc_blocks[i].y : i \in 1..3} = {0, 20}
    /\ proc_cleaned = <<>>

\* C13: no block of type page-footer is in the output of the sanitizer,
\* whatever its text, page, position or repetition count.
C13_TypedFootersDropped ==
    proc_pc = "cleaned" =>
        \A i \in 1..Len(proc_cleaned) : LowerType(proc_cleaned[i].type) # "page-footer"

\* the blocks build_chunks splits
MergedBlocks == merge_small_blocks(remove_near_duplicates(proc_cleaned))

\* the parts of the first n blocks of merged, one after the other, each
\* with the block it is a part of
RECURSIVE PartsOf(_, _)
PartsOf(merged, n) ==
    IF n = 0 THEN <<>>
    ELSE LET parts == split_text(merged[n].text)
         IN  PartsOf(merged, n - 1)
             \o [r \in 1..Len(parts) |-> [block |-> merged[n], text |-> parts[r]]]

\* C14: the chunks of one build_chunks call are numbered 0, 1, ..., N-1 in
\* list order over all documents, each has the user_id of the run, and each
\* carries the filename, type and page of the merged block it is a part of.
C14_ChunkIds ==
    proc_pc = "chunked" =>
        LET parts == PartsOf(MergedBlocks, Len(MergedBlocks))
        IN  /\ Len(proc_chunks) = Len(parts)
            /\ \A k \in 1..Len(proc_chunks) :
                  /\ proc_chunks[k].chunk_id = k - 1
                  /\ proc_chunks[k].user_id = user_id
                  /\ proc_chunks[k].text = parts[k].text
                  /\ proc_chunks[k].filename = parts[k].block.filename
                  /\ proc_chunks[k].type = parts[k].block.type
                  /\ proc_chunks[k].page = parts[k].block.page

\* a block of a.pdf has been split into several chunks and a chunk of b.pdf
\* follows them
C14_Witness ==
    /\ proc_pc = "chunked"
    /\ \E k \in 2..(Len(proc_chunks) - 1) :
          /\ proc_chunks[k - 1].filename = "a.pdf"
          /\ proc_chunks[k].filename = "a.pdf"
          /\ proc_chunks[k - 1].page = proc_chunks[k].page
          /\ proc_chunks[k + 1].filename = "b.pdf"
          /\ proc_chunks[k + 1].chunk_id = k

(***************************************************************************)
(* Extraction order and the model server's lifecycle                       *)
(***************************************************************************)
\* the sorted blocks of the pages of d, each page read on its own
ReadingOrder(d) ==
    Tag(SortBlocks(Concat([k \in 1..PageCount(d) |->
            page_job_blocks(<<d, k - 1>>, Predict(<<d, k - 1>>))])), d, user_id)

\* C15: the block list extracted from an image-paginated document is in
\* (page, y) order -- no block comes after a block of a higher page, or of the
\* same page and a larger y -- and is the same list in whatever order the
\* page jobs of the 2-worker pool complete.
C15_ReadingOrder ==
    \A d \in Pdfs : doc_state[d] = "ok" =>
        /\ \A i, j \in 1..Len(doc_blocks[d]) :
              i < j => KeyLeq(doc_blocks[d][i], doc_blocks[d][j])
        /\ doc_blocks[d] = ReadingOrder(d)

\* a.pdf has been extracted: blocks of two pages, detected on each page in
\* another order than the vertical one
C15_Witness ==
    /\ doc_state["a.pdf"] = "ok"
    /\ {doc_blocks["a.pdf"][i].page : i \in 1..Len(doc_blocks["a.pdf"])} = 0..(NumPagesA - 1)
    /\ \E p \in 0..(NumPagesA - 1) : \E i, j \in 1..Len(PageBoxes("a.pdf", p)) :
          i < j /\ PageBoxes("a.pdf", p)[i].y1 > PageBoxes("a.pdf", p)[j].y1

\* the step puts a page job, or the sentinel, on the inbound queue
EnqueuesJob ==
    /\ Len(server_req_q') = Len(server_req_q) + 1
    /\ server_req_q'[Len(server_req_q')] # Sentinel
EnqueuesSentinel ==
    /\ Len(server_req_q') = Len(server_req_q) + 1
    /\ server_req_q'[Len(server_req_q')] = Sentinel

\* C16: the server process has been started when a page job is enqueued; the
\* sentinel is put on the inbound queue only when every document task of the
\* run has returned; no page job is enqueued once the sentinel has been put.
C16_LifecycleOrder ==
    [][ /\ EnqueuesJob =>
              /\ server # "none"
              /\ main_pc \notin {"sentinel", "join", "done"}
        /\ EnqueuesSentinel =>
              /\ \A d \in docs : doc_state[d] \in {"ok", "failed"}
              /\ \A c \in Pages : c[1] \in docs => page_state[c] \notin {"pending", "wait", "hold"}
      ]_vars

\* the sentinel is on the inbound queue after a run whose page jobs the
\* server has answered
C16_Witness ==
    /\ main_pc = "sentinel"
    /\ Sentinel \in SeqRange(server_req_q)
    /\ "a.pdf" \in docs
    /\ \A c \in PagesOf("a.pdf") : c \in answered

\* the step takes the head off the inbound queue
Dequeues == server_req_q # <<>> /\ server_req_q' = Tail(server_req_q)

\* C17: the server loop ends when it dequeues None; from then on nothing is
\* dequeued from the inbound queue -- neither what was behind the None nor
\* what is put after it -- and no response is produced.
C17_SentinelShutdown ==
    [][ /\ (Dequeues /\ Head(server_req_q) = Sentinel) => server' = "stopped"
        /\ server = "stopped" =>
              /\ server' = "stopped"
              /\ ~Dequeues
              /\ server_resp_q' = server_resp_q
              /\ answered' = answered
      ]_vars

\* the server has stopped with a request left on the inbound queue, a
\* request it has not answered
C17_Witness ==
    /\ server = "stopped"
    /\ \E i \in 1..Len(server_req_q) :
          /\ server_req_q[i] # Sentinel
          /\ server_req_q[i].job_id \notin answered
    /\ Len(server_req_q) = MaxPending

\* C18: when the model server fails to start -- the model cannot be loaded
\* and the process dies -- the run aborts and persists no chunk list,
\* whatever the formats of the documents of the user's root.
C18_StartupFailureFatal ==
    server = "dead" =>
        /\ main_pc \notin {"saved", "sentinel", "join", "done"}
        /\ chunks_file[user_id] = NoFile

(***************************************************************************)
(* Search results                                                          *)
(***************************************************************************)
\* the step ends a search of the Searcher, with a result list or an error
SearchEnds == searcher.pc = "ready" /\ searcher'.pc \in {"done", "error"}

\* C19: a search made while the chunk_ids reachable through the user's
\* index and mapping differ from the chunk_ids stored for the user in the
\* collection ends with an error, never with a result list.
C19_ConsistencyFaultSurfaced ==
    [][ (/\ SearchEnds
         /\ searcher.index = hnsw_file[searcher.user]
         /\ IndexIds(searcher.user) # StoreIds(searcher.user))
        => searcher'.pc = "error" ]_vars

\* C20: a search returns at most top_k results by ascending distance, the
\* i-th being the i-th neighbour of the ANN query: its id is the chunk_id the
\* mapping gives for the i-th label, its text and metadata are the ones
\* stored under that id, and its score is the distance of that neighbour --
\* in whatever order the collection returns the fetched records.
C20_ResultOrder ==
    [][ (SearchEnds /\ searcher'.pc = "done") =>
          LET u      == searcher.user
              labs   == searcher'.labels
              result == searcher'.result
          IN  /\ Len(result) <= Len(labs)
              /\ \A i, j \in 1..Len(result) : i < j => result[i].score <= result[j].score
              /\ \A i \in 1..Len(result) :
                    /\ result[i].id = IntOf(mapping_file[u].map[labs[i]])
                    /\ \E r \in SeqRange(collection) :
                          /\ r.id = StrOf(result[i].id)
                          /\ r.document = result[i].text
                          /\ r.metadata = result[i].metadata
              /\ \E q \in Queries : \A i \in 1..Len(result) :
                    result[i].score = Dist(Embed(q), searcher.index.items[labs[i] + 1])
      ]_vars

\* the segments build_chunks emitted for merged block n of the list
SegmentsOf(n) ==
    LET merged == MergedBlocks
        before == Len(PartsOf(merged, n - 1))
        upto == Len(PartsOf(merged, n))
    IN  [r \in 1..(upto - before) |-> proc_chunks[before + r].text]

\* C21: every chunk build_chunks emits has a text of at most the configured
\* target size (chunking.chunk_size) plus the overlap characters, and the
\* segments of one source block repeat at most the overlap between each two
\* consecutive ones: together they are at most the text of the block plus
\* the overlap per segment boundary.
C21_ChunkSizeBound ==
    proc_pc = "chunked" =>
        /\ \A k \in 1..Len(proc_chunks) :
              Len(proc_chunks[k].text) <= cfg_chunk_size + chunk_overlap
        /\ \A n \in 1..Len(MergedBlocks) :
              LET segs == SegmentsOf(n)
              IN  Len(segs) > 0 =>
                    TotalLen(segs) <= Len(MergedBlocks[n].text)
                                        + (Len(segs) - 1) * chunk_overlap

\* C22: a completed Ingestor.run of a user leaves in chunks_<user_id>.json
\* exactly the chunk list of that run, whatever the file held before, and
\* leaves the files of the other users, the collection, the indexes and the
\* mappings as they were; Indexer.run of a user reads the chunks of that
\* user's file.
C22_ReingestSupersedes ==
    [][\A u \in Users :
          /\ \A ds \in IndexRoots :
                IngestorRun(u, ds) => chunks_file'[u] = File(RunOutput(u, ds))
          /\ chunks_file'[u] # chunks_file[u] =>
                /\ \E ds \in IndexRoots : chunks_file'[u] = File(RunOutput(u, ds))
                /\ \A v \in Users \ {u} : chunks_file'[v] = chunks_file[v]
                /\ UNCHANGED <<collection, hnsw_file, mapping_file>>
          /\ builds'[u] # builds[u] =>
                /\ chunks_file' = chunks_file
                /\ IF chunks_file[u] = NoFile \/ chunks_file[u].data = <<>>
                   THEN last_run'[u] = Run(<<>>)
                   ELSE indexer_chunks'[u] = chunks_file[u].data
      ]_vars

\* a user has indexed the chunks of one run and has then ingested again: the
\* file holds another, non-empty chunk list, while the other user has a
\* file as well
C22_Witness ==
    \E u \in Users :
        /\ last_run[u] # NoRun
        /\ last_run[u].chunks # <<>>
        /\ chunks_file[u] # NoFile
        /\ chunks_file[u].data # <<>>
        /\ chunks_file[u].data # last_run[u].chunks
        /\ \A k \in 1..Len(chunks_file[u].data) : chunks_file[u].data[k].user_id = u
        /\ \E v \in Users \ {u} : chunks_file[v] # NoFile /\ chunks_file[v].data # <<>>

\* the candidates that are not among the returned items
Omitted == {i \in 1..Len(cand_docs) : \A k \in 1..Len(reranked) : reranked[k].id # cand_docs[i].id}

\* C23: rerank returns min(top_k, |docs|) items; each is one of the input
\* items with the score the cross-encoder gives its text, no input item is
\* returned twice, the scores do not increase along the result, and no
\* omitted item has a score above that of a returned one; with no candidate
\* the result is empty and the model has not been called.
C23_Rerank ==
    rerank_pc = "returned" =>
        /\ Len(reranked) = (IF cand_top_k < Len(cand_docs) THEN cand_top_k ELSE Len(cand_docs))
        /\ \A k \in 1..Len(reranked) :
              \E i \in 1..Len(cand_docs) :
                 reranked[k] = [id |-> cand_docs[i].id, text |-> cand_docs[i].text,
                                rerank_score |-> ce_scores[cand_docs[i].text]]
        /\ \A k, l \in 1..Len(reranked) : k # l => reranked[k].id # reranked[l].id
        /\ \A k \in 1..(Len(reranked) - 1) :
              reranked[k].rerank_score >= reranked[k + 1].rerank_score
        /\ \A i \in Omitted : \A k \in 1..Len(reranked) :
              ce_scores[cand_docs[i].text] <= reranked[k].rerank_score
        /\ cand_docs = <<>> => reranked = <<>> /\ predict_calls = 0
        /\ cand_docs # <<>> => predict_calls = 1

\* a call that cut the list: the best candidate came last in the input and is
\* returned first, and a candidate of a lower score is left out
C23_Witness ==
    /\ rerank_pc = "returned"
    /\ Len(cand_docs) > cand_top_k
    /\ Len(reranked) >= 2
    /\ reranked[1].id = Len(cand_docs)
    /\ reranked[1].rerank_score > reranked[2].rerank_score
    /\ \E i \in Omitted : ce_scores[cand_docs[i].text] < reranked[Len(reranked)].rerank_score

\* rerank of no candidate has returned
C23_WitnessEmpty ==
    rerank_pc = "returned" /\ cand_docs = <<>> /\ reranked = <<>>

\* the normalized text remove_near_duplicates compares
DedupKey(b) == Lower(Strip(CollapseWs(b.text)))

\* the positions of the input blocks that are in the output
KeptOf(input, output) == {i \in 1..Len(input) : input[i] \in SeqRange(output)}

\* the up to windows kept positions next below position i
KeptBefore(kept, i) ==
    {j \in kept : j < i /\ Cardinality({l \in kept : j < l /\ l < i}) < windows}

\* C24: remove_near_duplicates keeps a block exactly when its normalized
\* text differs from the normalized texts of the last windows blocks kept
\* before it; in the output no two blocks at most windows positions apart
\* have the same normalized text; the output is the input blocks that were
\* kept, in input order; and the pass applied to its output changes nothing.
C24_NearDuplicates ==
    proc_pc = "chunked" =>
        LET input == proc_cleaned
            output == remove_near_duplicates(input)
            kept == KeptOf(input, output)
        IN  /\ output = SelectSeq(input, LAMBDA b : b \in SeqRange(output))
            /\ \A i \in 1..Len(input) :
                  i \in kept <=>
                     \A j \in KeptBefore(kept, i) : DedupKey(input[j]) # DedupKey(input[i])
            /\ \A k, l \in 1..Len(output) :
                  (k < l /\ l - k <= windows) => DedupKey(output[k]) # DedupKey(output[l])
            /\ remove_near_duplicates(output) = output
            /\ proc_chunks = ChunkLoop(merge_small_blocks(output), 1, 0, user_id)

\* two paragraphs of the same normalized text, written differently, were
\* both kept: more than windows paragraphs were kept between them
C24_Witness ==
    /\ proc_pc = "chunked"
    /\ LET input == proc_cleaned
           kept == KeptOf(input, remove_near_duplicates(input))
       IN  /\ Cardinality(kept) > windows
           /\ \E i, j \in kept :
                 /\ i < j
                 /\ DedupKey(input[i]) = DedupKey(input[j])
                 /\ input[i].text # input[j].text

\* the blocks merge_small_blocks is given by build_chunks
MergeInput == remove_near_duplicates(proc_cleaned)

\* the words of the first n blocks of a list, one after the other
WordsOf(blocks, n) ==
    Strip(CollapseWs(Concat([i \in 1..n |-> blocks[i].text \o <<" ">>])))

\* the output has a block boundary where block i of the input ends
BoundaryAfter(i) ==
    \E k \in 0..Len(MergedBlocks) : WordsOf(MergedBlocks, k) = WordsOf(MergeInput, i)

\* C25: merge_small_blocks ends an output block wherever the next input
\* block is on another page or is full-size (min_words words or more), so
\* that no output block holds text of two pages or a full-size block
\* together with the buffer before it; and the words of the output, one
\* after the other, are the words of the input.
C25_MergeBoundaries ==
    proc_pc = "chunked" =>
        /\ WordsOf(MergedBlocks, Len(MergedBlocks)) = WordsOf(MergeInput, Len(MergeInput))
        /\ \A i \in 1..(Len(MergeInput) - 1) :
              (\/ MergeInput[i].page # MergeInput[i + 1].page
               \/ WordCount(Strip(MergeInput[i + 1].text)) >= min_words)
              => BoundaryAfter(i)

\* the blocks of a list at the positions K, in list order
AtPositions(blocks, K) ==
    LET idx == SelectSeq([i \in 1..Len(blocks) |-> i], LAMBDA i : i \in K)
    IN  [k \in 1..Len(idx) |-> blocks[idx[k]]]

\* C26: the output of remove_page_headers_footers is its input with the
\* blocks of some positions left out -- the other blocks as they were, in
\* their order, none added and none twice -- and it has no block of type
\* page-header, the first typed header of a page included.
C26_SanitizerShape ==
    proc_pc = "cleaned" =>
        /\ \E K \in SUBSET (1..Len(proc_blocks)) : proc_cleaned = AtPositions(proc_blocks, K)
        /\ \A i \in 1..Len(proc_cleaned) : LowerType(proc_cleaned[i].type) # "page-header"

\* a list that starts with the only typed header of its page and holds the
\* same block twice has been sanitized: the header is gone and the two
\* equal blocks are both in the output
C26_Witness ==
    /\ proc_pc = "cleaned"
    /\ Len(proc_blocks) >= 3
    /\ proc_blocks[1].type = "page-header"
    /\ \A i \in 2..Len(proc_blocks) : proc_blocks[i].type # "page-header"
    /\ Len(proc_cleaned) = Len(proc_blocks) - 1
    /\ \E k \in 1..(Len(proc_cleaned) - 1) : proc_cleaned[k] = proc_cleaned[k + 1]

\* the document tasks a pool process is executing
ExecutingDocs == {d \in docs : Executing(d)}

\* the page jobs of document d that a worker of its executor is running
JobsInProgress(d) == {c \in PagesOf(d) : InFlight(c)}

\* the jobs submitted to the model server and not yet answered or failed
JobsInFlight == {c \in Pages : InFlight(c) /\ c \notin answered}

\* C27: at every moment of an ingestion run at most 9 document tasks are
\* executing, each has at most 2 page jobs in progress, and at most 18 jobs
\* are in flight on the model server; a document task is dispatched for the
\* files of the root only, once each: a task starts executing from the
\* queue of the starmap and never leaves a finished state.
C27_BoundedParallelism ==
    [][/\ Cardinality(ExecutingDocs') <= 9
       /\ \A d \in Pdfs : Cardinality(JobsInProgress(d)') <= 2
       /\ Cardinality(JobsInFlight') <= 18
       /\ \A d \in DocSet :
             /\ d \notin docs => doc_state'[d] = "absent"
             /\ (Executing(d)' /\ ~Executing(d)) => (d \in docs /\ doc_state[d] = "queued")
             /\ Finished(d) => doc_state'[d] = doc_state[d]
             /\ doc_state'[d] = "queued" => doc_state[d] = "queued"
      ]_vars

\* both workers of the executor of f.pdf are running a page job and the
\* third page is waiting for one of them
C27_Witness ==
    /\ Cardinality(JobsInProgress("f.pdf")) = MAX_WORKERS
    /\ \E c \in PagesOf("f.pdf") : page_state[c] = "pending"

\* all processes of the pool are executing a document task and the last
\* file of the root is waiting for one of them
C27_WitnessPool ==
    /\ Cardinality(ExecutingDocs) = POOL_PROCESSES
    /\ \E d \in docs : doc_state[d] = "queued"

\* C28: with the model server running and every caller and the server
\* scheduled again and again, a page_job that waits for its response
\* eventually dequeues the response with its own job_id and leaves the loop,
\* whatever the other callers do with the responses they take and put back.
C28_CallersProgress ==
    \A c \in Pages :
        (page_state[c] = "wait" /\ server = "ready") ~> (page_state[c] = "done")

\* the responses on the outbound queue and in the hands of the callers
Responses ==
    {server_resp_q[i] : i \in {n \in 1..Len(server_resp_q) : server_resp_q[n] # Sentinel}}
    \cup {held[c] : c \in {e \in Pages : held[e] # NoJob}}

\* C29: the server takes a request only after it has answered the one
\* before, and answers the request it took with one response that carries
\* the job_id of that request and the detections of its image, so the
\* responses come out in request order, one per request; every response
\* on the queue or in a caller's hands holds the detections of the image
\* submitted with its job_id, and a page_job
\* that has returned built its blocks from the detections of its own page.
C29_ResponseOfOwnPage ==
    [][/\ (srv_job' # srv_job /\ srv_job' # NoJob) =>
             /\ srv_job = NoJob
             /\ server_req_q # <<>>
             /\ srv_job' = Head(server_req_q)
             /\ server_req_q' = Tail(server_req_q)
             /\ server_resp_q' = server_resp_q
       /\ (srv_job # NoJob /\ srv_job' # srv_job) =>
             /\ srv_job' = NoJob
             /\ server_resp_q' = Append(server_resp_q,
                    [jid |-> srv_job.job_id, results |-> Predict(srv_job.img)])
       /\ answered' # answered =>
             /\ srv_job # NoJob
             /\ srv_job.job_id \notin answered
             /\ answered' = answered \cup {srv_job.job_id}
       /\ \A r \in Responses' : r.results = Predict(r.jid)
       /\ \A c \in Pages :
             page_state'[c] = "done" => page_result'[c] = page_job_blocks(c, Predict(c))
      ]_vars

\* the page_job of page 1 of a.pdf has returned its blocks while the
\* response of page 0, emitted before its own, is still on the queue: it
\* met that response and put it back, or the other caller did
C29_Witness ==
    /\ page_state[<<"a.pdf", 1>>] = "done"
    /\ page_result[<<"a.pdf", 1>>] # <<>>
    /\ page_state[<<"a.pdf", 0>>] = "wait"
    /\ \E i \in 1..Len(server_resp_q) :
          server_resp_q[i] # Sentinel /\ server_resp_q[i].jid = <<"a.pdf", 0>>

\* the characters other than whitespace of the texts extracted from file d
CharsOfFile(d) ==
    UNION {{proc_cleaned[i].text[n] : n \in 1..Len(proc_cleaned[i].text)} :
              i \in {m \in 1..Len(proc_cleaned) : proc_cleaned[m].filename = d}}

\* C30: the text of every chunk is made of text extracted from the file
\* its filename names: merge_small_blocks ends an output block wherever
\* the next block comes from another file, and no chunk holds a character
\* that the texts of its file do not hold.
C30_NoCrossDocumentMerge ==
    proc_pc = "chunked" =>
        /\ \A i \in 1..(Len(MergeInput) - 1) :
              MergeInput[i].filename # MergeInput[i + 1].filename => BoundaryAfter(i)
        /\ \A k \in 1..Len(proc_chunks) :
              \A n \in 1..Len(proc_chunks[k].text) :
                 \/ IsSpace(proc_chunks[k].text[n])
                 \/ proc_chunks[k].text[n] \in CharsOfFile(proc_chunks[k].filename)
====
